---- MODULE Spec2Model ----
(***************************************************************************)
(* Model of the IPO-Screener column transformation pipeline:               *)
(* DataTransformer (impute, handle_outliers, fit_normalizer, normalize),   *)
(* the three artifact value objects with their JSON serialisation, and     *)
(* Parser.parse_indian_money_to_number.                                    *)
(*                                                                         *)
(* A table cell, an artifact number and a parser result are all records    *)
(* [t, v, d]: t is the kind, v/d the value as a reduced fraction.          *)
(*   "num"   a finite float v/d                                            *)
(*   "nan"   NaN, which is also the null of a numeric pandas column        *)
(*   "str"   a non-numeric string cell (object column)                     *)
(*   "none"  Python None                                                   *)
(*   "log1p" the float log1p(v/d) for v/d > -1, v/d # 0                    *)
(*   "ninf"  -inf (log1p(-1))                                              *)
(***************************************************************************)
EXTENDS Integers, Sequences, FiniteSets, TLC

VARIABLES
    df,        \* the table the transformer works on (mutated in place)
    imp_art,   \* ImputationArtifacts in use
    out_art,   \* OutlierArtifacts in use
    norm_art,  \* NormalizationArtifacts in use
    call,      \* the last call: operation, arguments (columns, mode, string
               \* argument of a parser), table it was given
    file,      \* content of the artifact JSON file
    loaded,    \* artifact value read back from the file
    money,     \* last money string parsed and the result
    steps,     \* the table after each step of the last handle_outliers call
    fitted_on, \* the table norm_art was fitted on, if it came from fit_normalizer
    ret,       \* outcome of the last call: exception raised, value returned
    trace,     \* the steps create_gold / create_bronze has performed, in order
    disk,      \* files written by the pipeline: name -> content
    writer,    \* the DynamicCSVWriter: fieldnames, _rows_written
    fetcher,   \* the retry loop of IPOGmpTableFetcher: attempt, requests, sleeps
    pool,      \* the tasks of the scraper's thread pool
    transformer \* the DataTransformer: bronze, silver, gold and its environment

vars ==
    <<df, imp_art, out_art, norm_art, call, file, loaded, money, steps, fitted_on,
      ret, trace, disk, writer, fetcher, pool, transformer>>

\* ---------------------------------------------------------------- bounds
MaxRows == 2
MaxVal == 1

\* ------------------------------------------------------------ cell values
Num(n) == [t |-> "num", v |-> n, d |-> 1]
NaN == [t |-> "nan", v |-> 0, d |-> 1]
Str == [t |-> "str", v |-> 0, d |-> 1]
None == [t |-> "none", v |-> 0, d |-> 1]
NegInf == [t |-> "ninf", v |-> 0, d |-> 1]

IsNum(x) == x.t = "num"
isna(x) == x.t = "nan"

Range(s) == {s[i] : i \in DOMAIN s}

\* outcome of a call: the exception it raised, or the value it returned
NoRet == [raised |-> "", val |-> <<>>]
Raised(exc) == [raised |-> exc, val |-> <<>>]
Returned(v) == [raised |-> "", val |-> v]

\* --------------------------------------------------------- column names
\* A column name is <<base, k>>: base followed by k copies of the suffix
\* "__is_missing".
Col(base) == <<base, 0>>
IndicatorName(col) == <<col[1], col[2] + 1>>

\* ------------------------------------------------------ strategy registry
Strategy(imp, outl, norm, hmin, hmax) ==
    [imputer |-> imp, outlier |-> outl, normalization |-> norm,
     hard_min |-> hmin, hard_max |-> hmax]

DEFAULT_AMOUNT_STRATEGY == Strategy("median", "iqr_filter", "log1p", None, None)
DEFAULT_PRICE_STRATEGY_mut == Strategy("median", "percentile_clip", "log1p", None, None)
DEFAULT_PRICE_STRATEGY == Strategy("median", "percentile_filter", "log1p", None, None)
DEFAULT_TEXT_DATE_STRATEGY == Strategy("none", "none", "none", None, None)

\* IPOColumn.strategy_map(), restricted to one column of each strategy shape
strategy_map ==
    [c \in {"assets", "issue_price", "ebitda_margin",
            "pre_issue_promoter_holding", "subscription", "company"} |->
        CASE c = "assets" -> DEFAULT_AMOUNT_STRATEGY
          [] c = "issue_price" -> DEFAULT_PRICE_STRATEGY
          [] c = "ebitda_margin" ->
                Strategy("median", "percentile_clip", "robust_z", None, None)
          [] c = "pre_issue_promoter_holding" ->
                Strategy("median", "clip_then_percentile_clip", "robust_z",
                         Num(0), Num(100))
          [] c = "subscription" ->
                Strategy("zero", "percentile_clip", "robust_z", Num(0), None)
          [] c = "company" -> DEFAULT_TEXT_DATE_STRATEGY]

\* strategy_map.keys() in definition order
RegistryOrder ==
    <<"assets", "ebitda_margin", "company", "issue_price",
      "pre_issue_promoter_holding", "subscription">>

HasStrategy(col) == col[2] = 0 /\ col[1] \in DOMAIN strategy_map
get_strategy(col) == strategy_map[col[1]]

\* ----------------------------------------------------------------- tables
\* [cols: set of column names, rows: set of row ids, cell: col -> row -> cell]
Table(cs, rs, f) == [cols |-> cs, rows |-> rs, cell |-> f]

SetCol(t, col, g) ==
    [t EXCEPT !.cols = t.cols \cup {col},
              !.cell = [c \in t.cols \cup {col} |->
                           IF c = col THEN g ELSE t.cell[c]]]

MapCol(t, col, F(_)) == SetCol(t, col, [r \in t.rows |-> F(t.cell[col][r])])

existing(t, cols) == SelectSeq(cols, LAMBDA c : c \in t.cols)

\* cols is a list of column names, or NoCols for Python's None
NoCols == <<<<"None", 0>>>>

\* select that returns an explicit request as it is, without the existence filter
select_mut(t, cols) ==
    IF cols = NoCols
    THEN existing(t, [i \in DOMAIN RegistryOrder |-> Col(RegistryOrder[i])])
    ELSE cols

select(t, cols) ==
    IF cols = NoCols
    THEN existing(t, [i \in DOMAIN RegistryOrder |-> Col(RegistryOrder[i])])
    ELSE existing(t, cols)

to_numeric(x) == IF x.t = "str" THEN NaN ELSE x

\* ensure_numeric over a set of columns (the order of the loop is immaterial:
\* each column is coerced on its own)
RECURSIVE ensure_numeric(_, _)
ensure_numeric(t, cs) ==
    IF cs = {} THEN t
    ELSE LET c == CHOOSE x \in cs : TRUE
             u == IF c \in t.cols THEN MapCol(t, c, to_numeric) ELSE t
         IN ensure_numeric(u, cs \ {c})

\* ------------------------------------------------------------- imputation
ImputationArtifacts(med, ind, zero) ==
    [medians |-> med, add_missing_indicator |-> ind, zero_fill |-> zero]

\* __add_missing_indicator without the test for an existing indicator column
add_missing_indicator_mut(t, col) ==
    SetCol(t, IndicatorName(col),
           [r \in t.rows |-> IF isna(t.cell[col][r]) THEN Num(1) ELSE Num(0)])

add_missing_indicator(t, col) ==
    IF IndicatorName(col) \notin t.cols
    THEN SetCol(t, IndicatorName(col),
                [r \in t.rows |-> IF isna(t.cell[col][r]) THEN Num(1) ELSE Num(0)])
    ELSE t

fillna(x, val) == IF isna(x) THEN val ELSE x

RECURSIVE IndicatorLoop(_, _, _)
IndicatorLoop(t, inds, target) ==
    IF inds = <<>> THEN t
    ELSE LET col == Head(inds)
             u == IF col \in t.cols /\ col \in target
                  THEN add_missing_indicator(t, col) ELSE t
         IN IndicatorLoop(u, Tail(inds), target)

RECURSIVE FillLoop(_, _, _, _)
FillLoop(t, cs, target, val) ==
    IF cs = {} THEN t
    ELSE LET col == CHOOSE x \in cs : TRUE
             u == IF col \in t.cols /\ col \in target
                  THEN MapCol(t, col, LAMBDA x : fillna(x, val[col])) ELSE t
         IN FillLoop(u, cs \ {col}, target, val)

\* impute with the fills done before the indicators are taken
impute_mut(art, t, cols) ==
    LET target == Range(select(t, cols))
        fill_cols == DOMAIN art.medians \cup Range(art.zero_fill)
        t2 == ensure_numeric(t, {c \in fill_cols : c \in t.cols /\ c \in target})
        t3 == FillLoop(t2, DOMAIN art.medians, target, art.medians)
        t4 == FillLoop(t3, Range(art.zero_fill), target,
                       [c \in Range(art.zero_fill) |-> Num(0)])
    IN IndicatorLoop(t4, art.add_missing_indicator, target)

impute(art, t, cols) ==
    LET target == Range(select(t, cols))
        t1 == IndicatorLoop(t, art.add_missing_indicator, target)
        fill_cols == DOMAIN art.medians \cup Range(art.zero_fill)
        t2 == ensure_numeric(t1, {c \in fill_cols : c \in t1.cols /\ c \in target})
        t3 == FillLoop(t2, DOMAIN art.medians, target, art.medians)
        t4 == FillLoop(t3, Range(art.zero_fill), target,
                       [c \in Range(art.zero_fill) |-> Num(0)])
    IN t4

\* -------------------------------------------------------- outlier handling
OutlierArtifacts(pctl, iqr, hard) ==
    [pctl_bounds |-> pctl, iqr_bounds |-> iqr, hard_clip |-> hard]

\* a <= b on floats; False when either side is NaN
Leq(a, b) == IsNum(a) /\ IsNum(b) /\ a.v * b.d <= b.v * a.d

\* Series.clip on one cell: a None or NaN threshold does not clip, NaN stays
clip(x, lower, upper) ==
    IF ~IsNum(x) THEN x
    ELSE LET y == IF IsNum(lower) /\ ~Leq(lower, x) THEN lower ELSE x
         IN IF IsNum(upper) /\ ~Leq(y, upper) THEN upper ELSE y

\* Series.between(lo, hi), both ends inclusive
between(x, lo, hi) == Leq(lo, x) /\ Leq(x, hi)

RECURSIVE ClipLoop(_, _, _, _)
ClipLoop(t, cs, target, bounds) ==
    IF cs = {} THEN t
    ELSE LET col == CHOOSE x \in cs : TRUE
             u == IF col \notin t.cols \/ col \notin target THEN t
                  ELSE MapCol(t, col,
                              LAMBDA x : clip(x, bounds[col][1], bounds[col][2]))
         IN ClipLoop(u, cs \ {col}, target, bounds)

\* step 1: hard clip, skipped for a column whose two hard bounds are None
HardClipStep(art, t, target) ==
    ClipLoop(t, {c \in DOMAIN art.hard_clip :
                    art.hard_clip[c][1] # None \/ art.hard_clip[c][2] # None},
             target, art.hard_clip)

\* the drop-mode mask with the upper bound left out of the comparison
MaskRows_mut(t, target, bounds) ==
    {r \in t.rows :
        \A col \in DOMAIN bounds :
            (col \in t.cols /\ col \in target) =>
                \/ Leq(bounds[col][1], t.cell[col][r])
                \/ isna(t.cell[col][r])}

\* rows kept by the drop-mode mask of one bounds mapping
MaskRows(t, target, bounds) ==
    {r \in t.rows :
        \A col \in DOMAIN bounds :
            (col \in t.cols /\ col \in target) =>
                \/ between(t.cell[col][r], bounds[col][1], bounds[col][2])
                \/ isna(t.cell[col][r])}

HasMask(t, target, bounds) ==
    \E col \in DOMAIN bounds : col \in t.cols /\ col \in target

Restrict(t, rs) ==
    [t EXCEPT !.rows = rs, !.cell = [c \in t.cols |-> [r \in rs |-> t.cell[c][r]]]]

\* handle_outliers with the hard clip applied after the percentile and IQR
\* steps instead of before them
OutlierSteps_mut(art, t, cols, mode) ==
    LET target == Range(select(t, cols))
        touch == DOMAIN art.pctl_bounds \cup DOMAIN art.iqr_bounds
        t0 == ensure_numeric(t, {c \in touch : c \in t.cols /\ c \in target})
        t2 == IF mode = "clip" THEN ClipLoop(t0, DOMAIN art.pctl_bounds, target, art.pctl_bounds)
              ELSE t0
        t3 == IF mode = "clip" THEN ClipLoop(t2, DOMAIN art.iqr_bounds, target, art.iqr_bounds)
              ELSE t2
        keep == MaskRows(t0, target, art.pctl_bounds) \cap MaskRows(t3, target, art.iqr_bounds)
        masked == HasMask(t0, target, art.pctl_bounds) \/ HasMask(t3, target, art.iqr_bounds)
        t4 == HardClipStep(art, t3, target)
        t5 == IF mode = "drop" /\ masked THEN Restrict(t4, keep) ELSE t4
    IN [numeric |-> t0, hard |-> t0, pctl |-> t2, iqr |-> t3, final |-> t5]

\* The tables after ensure_numeric, the hard clip, the percentile step, the
\* IQR step and the final row selection
OutlierSteps(art, t, cols, mode) ==
    LET target == Range(select(t, cols))
        touch == DOMAIN art.pctl_bounds \cup DOMAIN art.iqr_bounds
        t0 == ensure_numeric(t, {c \in touch : c \in t.cols /\ c \in target})
        t1 == HardClipStep(art, t0, target)
        t2 == IF mode = "clip" THEN ClipLoop(t1, DOMAIN art.pctl_bounds, target, art.pctl_bounds)
              ELSE t1
        t3 == IF mode = "clip" THEN ClipLoop(t2, DOMAIN art.iqr_bounds, target, art.iqr_bounds)
              ELSE t2
        keep == MaskRows(t1, target, art.pctl_bounds) \cap MaskRows(t3, target, art.iqr_bounds)
        masked == HasMask(t1, target, art.pctl_bounds) \/ HasMask(t3, target, art.iqr_bounds)
        t4 == IF mode = "drop" /\ masked THEN Restrict(t3, keep) ELSE t3
    IN [numeric |-> t0, hard |-> t1, pctl |-> t2, iqr |-> t3, final |-> t4]

handle_outliers(art, t, cols, mode) == OutlierSteps(art, t, cols, mode).final

\* the mode check that accepts every mode
ModeError_mut(mode) == FALSE

\* the mode check at the head of handle_outliers: True when it raises
ModeError(mode) == mode \notin {"clip", "drop"}

\* ---------------------------------------------------------- normalization
NormalizationArtifacts(shift, med, iqr, mn, mx) ==
    [log1p_shift |-> shift, robust_median |-> med, robust_iqr |-> iqr,
     minmax_min |-> mn, minmax_max |-> mx]

Abs(n) == IF n < 0 THEN -n ELSE n

RECURSIVE GCD(_, _)
GCD(a, b) == IF b = 0 THEN a ELSE GCD(b, a % b)

\* the float n/d as a reduced fraction with a positive denominator
Frac(n, d) ==
    LET g == GCD(Abs(n), Abs(d))
        sg == IF d < 0 THEN -1 ELSE 1
    IN [t |-> "num", v |-> sg * (n \div g), d |-> Abs(d) \div g]

\* float arithmetic; NaN or None propagates as NaN
Add(x, y) == IF IsNum(x) /\ IsNum(y) THEN Frac(x.v * y.d + y.v * x.d, x.d * y.d) ELSE NaN
Sub(x, y) == IF IsNum(x) /\ IsNum(y) THEN Frac(x.v * y.d - y.v * x.d, x.d * y.d) ELSE NaN
Div(x, y) == IF IsNum(x) /\ IsNum(y) /\ y.v # 0 THEN Frac(x.v * y.d, x.d * y.v) ELSE NaN

\* np.log1p on one cell: NaN below -1, -inf at -1, 0 at 0
log1p(x) ==
    IF ~IsNum(x) THEN NaN
    ELSE IF x.v + x.d < 0 THEN NaN
    ELSE IF x.v + x.d = 0 THEN NegInf
    ELSE IF x.v = 0 THEN Num(0)
    ELSE [t |-> "log1p", v |-> x.v, d |-> x.d]

NonNull(t, col) == {t.cell[col][r] : r \in t.rows} \ {NaN}

\* Series.min() / Series.max(): NaN for a column without a non-null value
ColMin(t, col) ==
    IF NonNull(t, col) = {} THEN NaN
    ELSE CHOOSE m \in NonNull(t, col) : \A x \in NonNull(t, col) : Leq(m, x)
ColMax(t, col) ==
    IF NonNull(t, col) = {} THEN NaN
    ELSE CHOOSE m \in NonNull(t, col) : \A x \in NonNull(t, col) : Leq(x, m)

\* compute_quantile_bounds for one column: the possible (low, high) pairs.
\* The quantile estimate of the data frame library is approximate; every
\* estimate lies between the column's minimum and maximum, the low quantile
\* is not above the high one, and a column without a non-null value gives NaN.
compute_quantile_bounds(t, col) ==
    IF NonNull(t, col) = {} THEN {<<NaN, NaN>>}
    ELSE LET range == ColMin(t, col).v .. ColMax(t, col).v
         IN {<<Num(q[1]), Num(q[2])>> : q \in {x \in range \X range : x[1] <= x[2]}}

\* transform the cells of the columns cs by F(column, cell)
MapCols(t, cs, F(_, _)) ==
    [t EXCEPT !.cell = [c \in t.cols |->
                           IF c \in cs THEN [r \in t.rows |-> F(c, t.cell[c][r])]
                           ELSE t.cell[c]]]

\* the target columns of the table whose strategy has normalization policy pol
NormCols(t, cols, pol) ==
    {c \in Range(select(t, cols)) :
        HasStrategy(c) /\ get_strategy(c).normalization = pol}

\* the table as fit_normalizer leaves it: its policy columns made numeric
FitNormalizerTable(t, cols) ==
    ensure_numeric(t, NormCols(t, cols, "log1p") \cup NormCols(t, cols, "robust_z")
                      \cup NormCols(t, cols, "minmax"))

\* the shift with the test mn < -1.0 in place of mn <= -1.0
Log1pShift_mut(mn) ==
    IF IsNum(mn) /\ ~Leq(Num(-1), mn) THEN Add(Sub(Num(0), mn), Num(1)) ELSE Num(0)

\* the log1p shift for a column minimum mn
Log1pShift(mn) ==
    IF IsNum(mn) /\ Leq(mn, Num(-1)) THEN Add(Sub(Num(0), mn), Num(1)) ELSE Num(0)

\* the robust-z scale for quantile bounds (q1, q3)
RobustIqr(b) ==
    LET iqr == Sub(b[2], b[1])
    IN IF ~IsNum(iqr) \/ iqr.v = 0 THEN Num(1) ELSE iqr

\* fit_normalizer with the log1p shift taken from the column maximum
fit_normalizer_mut(t, cols) ==
    LET u == FitNormalizerTable(t, cols)
        log_cols == NormCols(t, cols, "log1p")
        robust_cols == NormCols(t, cols, "robust_z")
        minmax_cols == NormCols(t, cols, "minmax")
        pairs == UNION {compute_quantile_bounds(u, c) : c \in robust_cols}
        bounds == {f \in [robust_cols -> pairs] :
                      \A c \in robust_cols : f[c] \in compute_quantile_bounds(u, c)}
    IN {NormalizationArtifacts(
            [c \in log_cols |-> Log1pShift(ColMax(u, c))],
            <<>>,
            [c \in robust_cols |-> RobustIqr(b[c])],
            [c \in minmax_cols |-> ColMin(u, c)],
            [c \in minmax_cols |-> ColMax(u, c)]) : b \in bounds}

\* fit_normalizer: the artifacts it can return (one per quantile estimate);
\* robust_median is never filled
fit_normalizer(t, cols) ==
    LET u == FitNormalizerTable(t, cols)
        log_cols == NormCols(t, cols, "log1p")
        robust_cols == NormCols(t, cols, "robust_z")
        minmax_cols == NormCols(t, cols, "minmax")
        pairs == UNION {compute_quantile_bounds(u, c) : c \in robust_cols}
        bounds == {f \in [robust_cols -> pairs] :
                      \A c \in robust_cols : f[c] \in compute_quantile_bounds(u, c)}
    IN {NormalizationArtifacts(
            [c \in log_cols |-> Log1pShift(ColMin(u, c))],
            <<>>,
            [c \in robust_cols |-> RobustIqr(b[c])],
            [c \in minmax_cols |-> ColMin(u, c)],
            [c \in minmax_cols |-> ColMax(u, c)]) : b \in bounds}

\* normalize with the log1p step applied to every target column, with shift
\* 0.0 for a column that has no fitted shift
normalize_mut(art, t, cols) ==
    LET target == Range(select(t, cols))
        log_cols == target
        robust_cols == target \cap DOMAIN art.robust_median
        minmax_cols == target \cap DOMAIN art.minmax_min
        t0 == ensure_numeric(t, log_cols \cup robust_cols \cup minmax_cols)
        t1 == MapCols(t0, log_cols,
                      LAMBDA c, x : log1p(IF c \in DOMAIN art.log1p_shift
                                             /\ art.log1p_shift[c] # Num(0)
                                          THEN Add(x, art.log1p_shift[c]) ELSE x))
        Iqr(c) == IF c \in DOMAIN art.robust_iqr /\ IsNum(art.robust_iqr[c])
                     /\ art.robust_iqr[c].v # 0
                  THEN art.robust_iqr[c] ELSE Num(1)
        t2 == MapCols(t1, robust_cols,
                      LAMBDA c, x : Div(Sub(x, art.robust_median[c]), Iqr(c)))
        Den(c) == LET d == Sub(art.minmax_max[c], art.minmax_min[c])
                  IN IF ~IsNum(d) \/ d.v = 0 THEN Num(1) ELSE d
        t3 == MapCols(t2, minmax_cols,
                      LAMBDA c, x : Div(Sub(x, art.minmax_min[c]), Den(c)))
    IN t3

\* normalize, for artifacts that have minmax_max wherever they have minmax_min
\* and no column in two of the three groups
normalize(art, t, cols) ==
    LET target == Range(select(t, cols))
        log_cols == target \cap DOMAIN art.log1p_shift
        robust_cols == target \cap DOMAIN art.robust_median
        minmax_cols == target \cap DOMAIN art.minmax_min
        t0 == ensure_numeric(t, log_cols \cup robust_cols \cup minmax_cols)
        t1 == MapCols(t0, log_cols,
                      LAMBDA c, x : log1p(IF art.log1p_shift[c] # Num(0)
                                          THEN Add(x, art.log1p_shift[c]) ELSE x))
        Iqr(c) == IF c \in DOMAIN art.robust_iqr /\ IsNum(art.robust_iqr[c])
                     /\ art.robust_iqr[c].v # 0
                  THEN art.robust_iqr[c] ELSE Num(1)
        t2 == MapCols(t1, robust_cols,
                      LAMBDA c, x : Div(Sub(x, art.robust_median[c]), Iqr(c)))
        Den(c) == LET d == Sub(art.minmax_max[c], art.minmax_min[c])
                  IN IF ~IsNum(d) \/ d.v = 0 THEN Num(1) ELSE d
        t3 == MapCols(t2, minmax_cols,
                      LAMBDA c, x : Div(Sub(x, art.minmax_min[c]), Den(c)))
    IN t3

\* ------------------------------------------- fitting imputer and outliers
Mul(x, y) == IF IsNum(x) /\ IsNum(y) THEN Frac(x.v * y.v, x.d * y.d) ELSE NaN

\* column names in the order sorted() gives them
NameOrder ==
    <<"assets", "company", "ebitda_margin", "issue_price", "issue_price_x",
      "pre_issue_promoter_holding", "subscription">>
NameLess(c1, c2) ==
    LET i1 == CHOOSE i \in DOMAIN NameOrder : NameOrder[i] = c1[1]
        i2 == CHOOSE i \in DOMAIN NameOrder : NameOrder[i] = c2[1]
    IN i1 < i2 \/ (i1 = i2 /\ c1[2] < c2[2])

\* sorted(set(cs))
RECURSIVE Sorted(_)
Sorted(cs) ==
    IF cs = {} THEN <<>>
    ELSE LET c == CHOOSE x \in cs : \A y \in cs \ {x} : NameLess(x, y)
         IN <<c>> \o Sorted(cs \ {c})

\* the target columns of the table whose strategy has an imputer policy in pols
ImputerCols(t, cols, pols) ==
    {c \in Range(select(t, cols)) : HasStrategy(c) /\ get_strategy(c).imputer \in pols}

\* the table as fit_imputer leaves it: its median and zero columns made numeric
FitImputerTable(t, cols) ==
    ensure_numeric(t, ImputerCols(t, cols, {"median", "median_with_missing_indicator",
                                            "zero", "zero_with_missing_indicator"}))

\* df[col].median().compute(): the possible estimates; a column without a
\* non-null value gives NaN
ColMedian(t, col) ==
    IF NonNull(t, col) = {} THEN {NaN}
    ELSE {Num(q) : q \in ColMin(t, col).v .. ColMax(t, col).v}

\* DataFrame.median() of the data frame library: whether it raises
\* NotImplementedError, which it does for a table of more than one partition
MedianRaises(t, cols, npartitions) ==
    /\ ImputerCols(t, cols, {"median", "median_with_missing_indicator"}) # {}
    /\ npartitions > 1

\* fit_imputer: the artifacts it can return (one per median estimate)
fit_imputer(t, cols) ==
    LET u == FitImputerTable(t, cols)
        median_cols == ImputerCols(t, cols, {"median", "median_with_missing_indicator"})
        zero_cols == ImputerCols(t, cols, {"zero", "zero_with_missing_indicator"})
        add_indicator_cols ==
            ImputerCols(t, cols, {"median_with_missing_indicator",
                                  "zero_with_missing_indicator"})
        all == UNION {ColMedian(u, c) : c \in median_cols}
        medians == {m \in [median_cols -> all] :
                       \A c \in median_cols : m[c] \in ColMedian(u, c)}
    IN {ImputationArtifacts(m, Sorted(add_indicator_cols), Sorted(zero_cols)) :
            m \in medians}

\* the target columns of the table whose strategy has an outlier policy in pols
OutlierCols(t, cols, pols) ==
    {c \in Range(select(t, cols)) : HasStrategy(c) /\ get_strategy(c).outlier \in pols}

PctlPolicies == {"percentile_clip", "percentile_filter", "clip_then_percentile_clip"}

\* the table as fit_outliers leaves it: its bounded columns made numeric
FitOutliersTable(t, cols) ==
    ensure_numeric(t, OutlierCols(t, cols, PctlPolicies \cup {"iqr_filter"}))

\* iqr_k of every registry strategy
iqr_k == Frac(3, 2)

\* (q1 - k * iqr, q3 + k * iqr) for quartiles b = (q1, q3)
IqrBounds(b) ==
    LET iqr == Sub(b[2], b[1])
    IN <<Sub(b[1], Mul(iqr_k, iqr)), Add(b[2], Mul(iqr_k, iqr))>>

\* fit_outliers: the artifacts it can return (one per quantile estimate)
fit_outliers(t, cols) ==
    LET u == FitOutliersTable(t, cols)
        hard_cols == {c \in Range(select(t, cols)) :
                         HasStrategy(c) /\ get_strategy(c).outlier # "none"}
        pctl_cols == OutlierCols(t, cols, PctlPolicies)
        iqr_cols == OutlierCols(t, cols, {"iqr_filter"})
        pairs == UNION {compute_quantile_bounds(u, c) : c \in pctl_cols \cup iqr_cols}
        quantiles == {f \in [pctl_cols \cup iqr_cols -> pairs] :
                         \A c \in pctl_cols \cup iqr_cols :
                            f[c] \in compute_quantile_bounds(u, c)}
    IN {OutlierArtifacts([c \in pctl_cols |-> q[c]],
                         [c \in iqr_cols |-> IqrBounds(q[c])],
                         [c \in hard_cols |-> <<get_strategy(c).hard_min,
                                                get_strategy(c).hard_max>>]) :
            q \in quantiles}

\* ------------------------------------------------- artifact serialisation
\* A JSON document is a record of its members; a JSON value is a record
\* [j, v, d]: a number, the literal NaN (written for a float nan) or null.
JNumber(x) == [j |-> "number", v |-> x.v, d |-> x.d]
JNaN == [j |-> "NaN", v |-> 0, d |-> 1]
JNull == [j |-> "null", v |-> 0, d |-> 1]

\* json.dumps of a float or None
JsonOf(x) == IF x = None THEN JNull ELSE IF isna(x) THEN JNaN ELSE JNumber(x)

\* float(v) of a parsed JSON number
FloatOf(j) == IF j.j = "NaN" THEN NaN ELSE [t |-> "num", v |-> j.v, d |-> j.d]

ImputationToJson(art) ==
    [medians |-> [c \in DOMAIN art.medians |-> JsonOf(art.medians[c])],
     add_missing_indicator |-> art.add_missing_indicator,
     zero_fill |-> art.zero_fill]

ImputationFromJson(doc) ==
    ImputationArtifacts([c \in DOMAIN doc.medians |-> FloatOf(doc.medians[c])],
                        doc.add_missing_indicator, doc.zero_fill)

OutlierToJson(art) ==
    [pctl_bounds |-> [c \in DOMAIN art.pctl_bounds |->
                        <<JsonOf(art.pctl_bounds[c][1]), JsonOf(art.pctl_bounds[c][2])>>],
     iqr_bounds |-> [c \in DOMAIN art.iqr_bounds |->
                        <<JsonOf(art.iqr_bounds[c][1]), JsonOf(art.iqr_bounds[c][2])>>],
     hard_clip |-> [c \in DOMAIN art.hard_clip |->
                        <<JsonOf(art.hard_clip[c][1]), JsonOf(art.hard_clip[c][2])>>]]

\* from_json_str with the hard bounds tested for truth instead of "is not None"
OutlierFromJson_mut(doc) ==
    LET Pair(a) == <<FloatOf(a[1]), FloatOf(a[2])>>
        Opt(j) == IF j.j = "null" \/ (j.j = "number" /\ j.v = 0) THEN None ELSE FloatOf(j)
    IN OutlierArtifacts([c \in DOMAIN doc.pctl_bounds |-> Pair(doc.pctl_bounds[c])],
                        [c \in DOMAIN doc.iqr_bounds |-> Pair(doc.iqr_bounds[c])],
                        [c \in DOMAIN doc.hard_clip |->
                            <<Opt(doc.hard_clip[c][1]), Opt(doc.hard_clip[c][2])>>])

OutlierFromJson(doc) ==
    LET Pair(a) == <<FloatOf(a[1]), FloatOf(a[2])>>
        Opt(j) == IF j.j = "null" THEN None ELSE FloatOf(j)
    IN OutlierArtifacts([c \in DOMAIN doc.pctl_bounds |-> Pair(doc.pctl_bounds[c])],
                        [c \in DOMAIN doc.iqr_bounds |-> Pair(doc.iqr_bounds[c])],
                        [c \in DOMAIN doc.hard_clip |->
                            <<Opt(doc.hard_clip[c][1]), Opt(doc.hard_clip[c][2])>>])

NormalizationToJson(art) ==
    [k \in DOMAIN art |-> [c \in DOMAIN art[k] |-> JsonOf(art[k][c])]]

NormalizationFromJson(doc) ==
    NormalizationArtifacts(
        [c \in DOMAIN doc.log1p_shift |-> FloatOf(doc.log1p_shift[c])],
        [c \in DOMAIN doc.robust_median |-> FloatOf(doc.robust_median[c])],
        [c \in DOMAIN doc.robust_iqr |-> FloatOf(doc.robust_iqr[c])],
        [c \in DOMAIN doc.minmax_min |-> FloatOf(doc.minmax_min[c])],
        [c \in DOMAIN doc.minmax_max |-> FloatOf(doc.minmax_max[c])])

\* ------------------------------------------------------------ money parser
\* A string is a sequence of characters; "RS" stands for the rupee sign,
\* "CIRCLE" and "BULLET" for the marks of the bracketed placeholders,
\* "EMDASH" for the long dash and "TAB" for the tab character.
DigitChars == <<"0", "1", "2", "3", "4", "5", "6", "7", "8", "9">>
IsDigit(ch) == ch \in Range(DigitChars)
DigitVal(ch) == (CHOOSE i \in DOMAIN DigitChars : DigitChars[i] = ch) - 1

UpperChars ==
    <<"A", "B", "C", "D", "E", "F", "G", "H", "I", "J", "K", "L", "M",
      "N", "O", "P", "Q", "R", "S", "T", "U", "V", "W", "X", "Y", "Z">>
LowerChars ==
    <<"a", "b", "c", "d", "e", "f", "g", "h", "i", "j", "k", "l", "m",
      "n", "o", "p", "q", "r", "s", "t", "u", "v", "w", "x", "y", "z">>
IsLetter(ch) == ch \in Range(UpperChars) \cup Range(LowerChars) \cup {"u"}
IsSpace(ch) == ch \in {" ", "TAB"}

\* str.lower() on one character
LowerChar(ch) ==
    IF ch \in Range(UpperChars)
    THEN LowerChars[CHOOSE i \in DOMAIN UpperChars : UpperChars[i] = ch]
    ELSE ch
Lower(s) == [i \in DOMAIN s |-> LowerChar(s[i])]

\* \w of the regular expressions
IsWord(ch) == IsDigit(ch) \/ IsLetter(ch) \/ ch = "_"

RECURSIVE LStrip(_)
LStrip(s) == IF s # <<>> /\ IsSpace(Head(s)) THEN LStrip(Tail(s)) ELSE s
RECURSIVE RStrip(_)
RStrip(s) ==
    IF s # <<>> /\ IsSpace(s[Len(s)]) THEN RStrip(SubSeq(s, 1, Len(s) - 1)) ELSE s
Strip(s) == RStrip(LStrip(s))

_PLACEHOLDER_TOKENS ==
    {<<"[", "CIRCLE", "]">>, <<"[", "BULLET", "]">>, <<"EMDASH">>, <<"-">>, <<"N", "A">>, <<"N", "/", "A">>,
     <<"n", "u", "l", "l">>, <<"N", "o", "n", "e">>, <<>>}

\* the Python value None passed as the argument of a parser
InputNone == <<"<None>">>

\* _normalize_missing returns None: for None and for a placeholder
IsMissing(s) == s = InputNone \/ Strip(s) \in _PLACEHOLDER_TOKENS

\* the alternatives of _MONEY_UNIT_RX, in the order the pattern lists them
MoneyUnits ==
    <<<<"c", "r">>, <<"c", "r", ".">>, <<"c", "r", "o", "r", "e">>,
      <<"l", "a", "k", "h">>, <<"l", "a", "k", "h", "s">>>>

\* \b between positions i-1 and i of s (1-based; outside the string is not \w)
WordAt(s, i) == i \in DOMAIN s /\ IsWord(s[i])
Boundary(s, i) == WordAt(s, i - 1) # WordAt(s, i)

\* alternative u matches at position i with \b on both sides
UnitMatches(s, i, u) ==
    /\ i + Len(u) - 1 <= Len(s)
    /\ SubSeq(s, i, i + Len(u) - 1) = u
    /\ Boundary(s, i)
    /\ Boundary(s, i + Len(u))

\* index of the first alternative of _MONEY_UNIT_RX that matches at i, or 0
UnitAt(s, i) ==
    IF \E k \in DOMAIN MoneyUnits : UnitMatches(s, i, MoneyUnits[k])
    THEN CHOOSE k \in DOMAIN MoneyUnits :
            /\ UnitMatches(s, i, MoneyUnits[k])
            /\ \A j \in 1..(k - 1) : ~UnitMatches(s, i, MoneyUnits[j])
    ELSE 0

\* _MONEY_UNIT_RX.search(s).group(1), or <<>> when there is no match
SearchUnit(s) ==
    IF \E i \in DOMAIN s : UnitAt(s, i) # 0
    THEN LET i == CHOOSE x \in DOMAIN s :
                      UnitAt(s, x) # 0 /\ \A y \in 1..(x - 1) : UnitAt(s, y) = 0
         IN MoneyUnits[UnitAt(s, i)]
    ELSE <<>>

\* _MONEY_UNIT_RX.sub("", s), scanning from position i
RECURSIVE SubUnitFrom(_, _)
SubUnitFrom(s, i) ==
    IF i > Len(s) THEN <<>>
    ELSE IF UnitAt(s, i) # 0 THEN SubUnitFrom(s, i + Len(MoneyUnits[UnitAt(s, i)]))
    ELSE <<s[i]>> \o SubUnitFrom(s, i + 1)
SubUnit(s) == SubUnitFrom(s, 1)

\* _CURRENCY_RX.sub("", s)
SubCurrency(s) == SelectSeq(s, LAMBDA ch : ~(ch = "RS" \/ ch = "," \/ IsSpace(ch)))

RECURSIVE DigitsVal(_)
DigitsVal(s) == IF s = <<>> THEN 0 ELSE 10 * DigitsVal(SubSeq(s, 1, Len(s) - 1)) + DigitVal(s[Len(s)])

RECURSIVE Pow10(_)
Pow10(n) == IF n = 0 THEN 1 ELSE 10 * Pow10(n - 1)

AllDigits(s) == \A i \in DOMAIN s : IsDigit(s[i])

\* float(s) for a string of digits with at most one point; NaN stands for
\* the ValueError of any other string
ParseFloat(s) ==
    LET dots == {i \in DOMAIN s : s[i] = "."}
    IN IF dots = {} THEN (IF s # <<>> /\ AllDigits(s) THEN Num(DigitsVal(s)) ELSE NaN)
       ELSE IF Cardinality(dots) > 1 THEN NaN
       ELSE LET k == CHOOSE i \in dots : TRUE
                ip == SubSeq(s, 1, k - 1)
                fp == SubSeq(s, k + 1, Len(s))
            IN IF AllDigits(ip) /\ AllDigits(fp) /\ Len(ip) + Len(fp) > 0
               THEN Frac(DigitsVal(ip \o fp), Pow10(Len(fp)))
               ELSE NaN

\* results of the parsers: a text, an ISO date, a float (Num, NaN, Inf) or None
Text(s) == [t |-> "text", s |-> s]
Date(y, m, d) == [t |-> "date", y |-> y, m |-> m, d |-> d]
Inf(sign) == [t |-> "inf", v |-> sign, d |-> 1]
\* float(s) raising ValueError
ValueErr == [t |-> "ValueError", v |-> 0, d |-> 1]

\* float(s) for a string without exponent and without underscores: optional
\* surrounding whitespace, optional sign, then digits with at most one point
\* or one of the literals nan, inf, infinity in any case
PyFloat(s) ==
    LET s1 == Strip(s)
        signed == s1 # <<>> /\ Head(s1) \in {"+", "-"}
        sign == IF signed /\ Head(s1) = "-" THEN -1 ELSE 1
        body == IF signed THEN Tail(s1) ELSE s1
        low == Lower(body)
        mag == ParseFloat(body)
    IN IF low = <<"n", "a", "n">> THEN NaN
       ELSE IF low \in {<<"i", "n", "f">>, <<"i", "n", "f", "i", "n", "i", "t", "y">>}
            THEN Inf(sign)
       ELSE IF isna(mag) THEN ValueErr
       ELSE Frac(sign * mag.v, mag.d)

\* parse_indian_money_to_number on a string; None for a null result
parse_indian_money_to_number(x) ==
    IF IsMissing(x) THEN None
    ELSE LET s_low == Lower(Strip(x))
             unit == SearchUnit(s_low)
             s_num == Strip(SubUnit(SubCurrency(s_low)))
             val == PyFloat(s_num)
         IN IF s_num = <<>> THEN None
            ELSE IF val = ValueErr THEN None
            ELSE IF ~IsNum(val) THEN val
            ELSE IF unit \in {<<"l", "a", "k", "h">>, <<"l", "a", "k", "h", "s">>}
                 THEN Div(val, Num(100))
            ELSE val

\* ------------------------------------------------------------ other parsers
RemoveCommas(s) == SelectSeq(s, LAMBDA ch : ch # ",")

\* parse_number without the except clause
parse_number_mut(x) ==
    IF IsMissing(x) THEN Returned(None)
    ELSE LET val == PyFloat(Strip(RemoveCommas(Strip(x))))
         IN IF val = ValueErr THEN Raised("ValueError") ELSE Returned(val)

parse_number(x) ==
    IF IsMissing(x) THEN Returned(None)
    ELSE LET val == PyFloat(Strip(RemoveCommas(Strip(x))))
         IN IF val = ValueErr THEN Returned(None) ELSE Returned(val)

parse_percentage(x) ==
    IF IsMissing(x) THEN Returned(None)
    ELSE LET s == Strip(x)
             s1 == IF s # <<>> /\ s[Len(s)] = "%"
                   THEN Strip(SubSeq(s, 1, Len(s) - 1)) ELSE s
             val == PyFloat(RemoveCommas(s1))
         IN IF val = ValueErr THEN Returned(None) ELSE Returned(val)

\* re.sub(r"P+", rep, s) for a character class P: every maximal run of
\* characters of the class is replaced by rep
RECURSIVE SubRuns(_, _, _)
SubRuns(s, class, rep) ==
    IF s = <<>> THEN <<>>
    ELSE IF Head(s) \in class
         THEN IF Len(s) > 1 /\ s[2] \in class THEN SubRuns(Tail(s), class, rep)
              ELSE rep \o SubRuns(Tail(s), class, rep)
    ELSE <<Head(s)>> \o SubRuns(Tail(s), class, rep)

RECURSIVE StripChar(_, _)
StripChar(s, ch) ==
    IF s # <<>> /\ Head(s) = ch THEN StripChar(Tail(s), ch)
    ELSE IF s # <<>> /\ s[Len(s)] = ch THEN StripChar(SubSeq(s, 1, Len(s) - 1), ch)
    ELSE s

\* the characters of s
Chars(s) == Range(s)
SpaceChars == {" ", "TAB"}
SlugChars == Range(LowerChars) \cup Range(DigitChars) \cup {"_"}

normalize_company_slug(x) ==
    IF IsMissing(x) THEN Returned(None)
    ELSE LET s0 == Lower(Strip(Strip(x)))
             s1 == SubRuns(s0, SpaceChars, <<"_">>)
             s2 == SubRuns(s1, Chars(s1) \ SlugChars, <<"_">>)
             s3 == StripChar(SubRuns(s2, {"_"}, <<"_">>), "_")
         IN IF s3 = <<>> THEN Returned(None) ELSE Returned(Text(s3))

parse_text(x) ==
    IF IsMissing(x) THEN Returned(None) ELSE Returned(Text(Strip(Strip(x))))

parse_listlike_text(x) ==
    IF IsMissing(x) THEN Returned(None)
    ELSE Returned(Text(Strip(SubRuns(Strip(x), SpaceChars, <<" ">>))))

\* _ORDINAL_SUFFIX_RX matches its suffix group at positions i, i + 1
OrdinalSuffixes == {<<"s", "t">>, <<"n", "d">>, <<"r", "d">>, <<"t", "h">>}
OrdinalAt(s, i) ==
    /\ i > 1 /\ i + 1 <= Len(s)
    /\ IsDigit(s[i - 1])
    /\ Lower(SubSeq(s, i, i + 1)) \in OrdinalSuffixes
    /\ Boundary(s, i + 2)

\* _strip_ordinal_suffix, scanning from position i
RECURSIVE StripOrdinalFrom(_, _)
StripOrdinalFrom(s, i) ==
    IF i > Len(s) THEN <<>>
    ELSE IF OrdinalAt(s, i) THEN StripOrdinalFrom(s, i + 2)
    ELSE <<s[i]>> \o StripOrdinalFrom(s, i + 1)
_strip_ordinal_suffix(s) == StripOrdinalFrom(s, 1)

\* s.split(sep) for a one-character separator
RECURSIVE SplitBy(_, _)
SplitBy(s, sep) ==
    IF \A i \in DOMAIN s : s[i] # sep THEN <<s>>
    ELSE LET k == CHOOSE i \in DOMAIN s : s[i] = sep /\ \A j \in 1..(i - 1) : s[j] # sep
         IN <<SubSeq(s, 1, k - 1)>> \o SplitBy(SubSeq(s, k + 1, Len(s)), sep)

\* the fields of s between runs of whitespace (a blank of a strptime format
\* matches one or more whitespace characters)
Tokens(s) == SplitBy(SubRuns(s, SpaceChars, <<" ">>), " ")

\* %B of strptime, lower case; %b is the first three letters
MonthNames ==
    <<<<"j", "a", "n", "u", "a", "r", "y">>,
      <<"f", "e", "b", "r", "u", "a", "r", "y">>,
      <<"m", "a", "r", "c", "h">>,
      <<"a", "p", "r", "i", "l">>,
      <<"m", "a", "y">>,
      <<"j", "u", "n", "e">>,
      <<"j", "u", "l", "y">>,
      <<"a", "u", "g", "u", "s", "t">>,
      <<"s", "e", "p", "t", "e", "m", "b", "e", "r">>,
      <<"o", "c", "t", "o", "b", "e", "r">>,
      <<"n", "o", "v", "e", "m", "b", "e", "r">>,
      <<"d", "e", "c", "e", "m", "b", "e", "r">>>>
MonthAbbrs == [i \in DOMAIN MonthNames |-> SubSeq(MonthNames[i], 1, 3)]
MonthIndex(tok, names) ==
    IF \E i \in DOMAIN names : names[i] = Lower(tok)
    THEN CHOOSE i \in DOMAIN names : names[i] = Lower(tok)
    ELSE 0

\* a field of digits that %d (1-2 digits, 1..31), %m (1-2 digits, 1..12) or
\* %Y (4 digits) accepts
NumField(f, lens, lo, hi) ==
    f # <<>> /\ AllDigits(f) /\ Len(f) \in lens /\ DigitsVal(f) \in lo..hi
IsDayField(f) == NumField(f, {1, 2}, 1, 31)
IsMonthField(f) == NumField(f, {1, 2}, 1, 12)
IsYearField(f) == NumField(f, {4}, 1, 9999)

IsLeap(y) == (y % 4 = 0 /\ y % 100 # 0) \/ y % 400 = 0
DaysIn(m, y) ==
    IF m = 2 THEN (IF IsLeap(y) THEN 29 ELSE 28)
    ELSE IF m \in {4, 6, 9, 11} THEN 30 ELSE 31

\* datetime(y, m, d).date().isoformat(), ValueError for a day the month lacks
MkDate(y, m, d) == IF d <= DaysIn(m, y) THEN Date(y, m, d) ELSE ValueErr

\* datetime.strptime(s, f).date().isoformat() for the five formats of
\* parse_date; ValueErr when it raises ValueError
Strptime(s, f) ==
    LET tk == Tokens(s)
        dash == SplitBy(s, "-")
        slash == SplitBy(s, "/")
    IN CASE f = "%d %B %Y" ->
              IF Len(tk) = 3 /\ IsDayField(tk[1]) /\ MonthIndex(tk[2], MonthNames) # 0
                 /\ IsYearField(tk[3])
              THEN MkDate(DigitsVal(tk[3]), MonthIndex(tk[2], MonthNames), DigitsVal(tk[1]))
              ELSE ValueErr
         [] f = "%d %b %Y" ->
              IF Len(tk) = 3 /\ IsDayField(tk[1]) /\ MonthIndex(tk[2], MonthAbbrs) # 0
                 /\ IsYearField(tk[3])
              THEN MkDate(DigitsVal(tk[3]), MonthIndex(tk[2], MonthAbbrs), DigitsVal(tk[1]))
              ELSE ValueErr
         [] f = "%Y-%m-%d" ->
              IF Len(dash) = 3 /\ IsYearField(dash[1]) /\ IsMonthField(dash[2])
                 /\ IsDayField(dash[3])
              THEN MkDate(DigitsVal(dash[1]), DigitsVal(dash[2]), DigitsVal(dash[3]))
              ELSE ValueErr
         [] f = "%d/%m/%Y" ->
              IF Len(slash) = 3 /\ IsDayField(slash[1]) /\ IsMonthField(slash[2])
                 /\ IsYearField(slash[3])
              THEN MkDate(DigitsVal(slash[3]), DigitsVal(slash[2]), DigitsVal(slash[1]))
              ELSE ValueErr
         [] f = "%d-%m-%Y" ->
              IF Len(dash) = 3 /\ IsDayField(dash[1]) /\ IsMonthField(dash[2])
                 /\ IsYearField(dash[3])
              THEN MkDate(DigitsVal(dash[3]), DigitsVal(dash[2]), DigitsVal(dash[1]))
              ELSE ValueErr

\* fmts of parse_date, in the order they are tried
DateFormats == <<"%d %B %Y", "%d %b %Y", "%Y-%m-%d", "%d/%m/%Y", "%d-%m-%Y">>

\* a date chosen by the parser of the data frame library; which one is not
\* modelled
PandasDate == Date(0, 0, 0)

\* the last resort of parse_date: pd.to_datetime(s, errors="coerce",
\* dayfirst=True) gives NaT or a timestamp, and any exception is caught
PandasOutcomes(s) == {Returned(None), Returned(PandasDate)}

\* parse_date: the outcomes it can have
parse_date(x) ==
    IF IsMissing(x) THEN {Returned(None)}
    ELSE LET s == Strip(_strip_ordinal_suffix(Strip(x)))
             ok == {i \in DOMAIN DateFormats : Strptime(s, DateFormats[i]) # ValueErr}
         IN IF ok # {}
            THEN {Returned(Strptime(s, DateFormats[CHOOSE i \in ok : \A j \in ok : i <= j]))}
            ELSE PandasOutcomes(s)

\* ------------------------------------------------------- idle components
NoTable == Table({}, {}, <<>>)
NoCall == [op |-> "init", cols |-> <<>>, mode |-> "", before |-> NoTable, arg |-> <<>>]
NoNorm == NormalizationArtifacts(<<>>, <<>>, <<>>, <<>>, <<>>)
NoOut == OutlierArtifacts(<<>>, <<>>, <<>>)
NoImp == ImputationArtifacts(<<>>, <<>>, <<>>)
NoFile == [kind |-> "none", text |-> <<>>]
NoMoney == [in |-> <<>>, number |-> <<>>, unit |-> <<>>, out |-> None]
NoDisk == <<>>
NoWriter == <<>>
NoFetcher == <<>>
NoPool == <<>>
NoTransformer == <<>>
Rows == 1..MaxRows

\* all tables over the rows Rows with columns cs and cells drawn from vals
TablesOver(cs, vals) == {Table(cs, Rows, f) : f \in [cs -> [Rows -> vals]]}

\* ------------------------------------------------ specification: imputation
S == Col("subscription")
A == Col("assets")

ImpVals == {NaN, Str} \cup {Num(i) : i \in 1..MaxVal}
\* one free column, optionally with a second column holding one value throughout
Uniform(v) == [r \in Rows |-> v]
ImpTables ==
    TablesOver({S}, ImpVals)
    \cup {SetCol(t, A, Uniform(v)) : t \in TablesOver({S}, ImpVals), v \in ImpVals}
ImpMedians == {<<>>, (A :> Num(7)), (A :> NaN), (S :> Num(7))}
ImpArts ==
    {ImputationArtifacts(m, i, z) :
        m \in ImpMedians,
        i \in {<<>>, <<S>>, <<A>>, <<S, IndicatorName(S)>>},
        z \in {<<>>, <<S>>, <<A>>}}
ImpColLists == {NoCols, <<S>>, <<A, S>>, <<S, IndicatorName(S)>>}

Impute(cols) ==
    /\ call.op \in {"init", "impute"}
    /\ df' = impute(imp_art, df, cols)
    /\ call' = [op |-> "impute", cols |-> cols, mode |-> "", before |-> df, arg |-> <<>>]
    /\ UNCHANGED <<writer, fetcher, pool, transformer, imp_art, out_art, norm_art, file, loaded, money, steps, fitted_on, ret, trace, disk>>

InitImpute ==
    /\ df \in ImpTables
    /\ imp_art \in ImpArts
    /\ out_art = NoOut
    /\ norm_art = NoNorm
    /\ call = NoCall
    /\ file = NoFile
    /\ loaded = <<>>
    /\ money = NoMoney
    /\ steps = <<>>
    /\ fitted_on = NoTable
    /\ ret = NoRet /\ writer = NoWriter /\ fetcher = NoFetcher /\ pool = NoPool /\ transformer = NoTransformer
    /\ trace = <<>>
    /\ disk = NoDisk

NextImpute == \E cols \in ImpColLists : Impute(cols)

SpecImpute == InitImpute /\ [][NextImpute]_vars

\* Columns of the artifacts that impute handles in the table it was given
Targeted(t, cols, c) == c \in t.cols /\ c \in Range(select(t, cols))

\* C1 (as stated): impute is idempotent for any artifacts, table and column
\* list: applying it again to its own result changes nothing.
C1_ImputeIdempotentAny ==
    call.op = "impute" => impute(imp_art, df, call.cols) = df

\* No entry of add_missing_indicator is the indicator name of another entry
NoChainedIndicator(art) ==
    \A c \in Range(art.add_missing_indicator) :
        IndicatorName(c) \notin Range(art.add_missing_indicator)

\* C1 (amended): impute is idempotent for any table and column list and any
\* artifacts in which no add_missing_indicator entry is the indicator name
\* <c>__is_missing of another entry: applying it again to its own result
\* yields the same columns and the same cells.
C1_ImputeIdempotent ==
    (call.op = "impute" /\ NoChainedIndicator(imp_art))
        => impute(imp_art, df, call.cols) = df

\* C1 witness: an impute call that added an indicator column and filled a
\* null, under artifacts without chained indicator names.
C1_Witness ==
    /\ call.op = "impute"
    /\ NoChainedIndicator(imp_art)
    /\ \E c \in call.before.cols :
          /\ IndicatorName(c) \in df.cols \ call.before.cols
          /\ \E r \in df.rows : isna(call.before.cell[c][r]) /\ ~isna(df.cell[c][r])

\* The value impute leaves in a cell of col that was null
FillValue(art, col) ==
    IF col \in DOMAIN art.medians /\ ~isna(art.medians[col]) THEN art.medians[col]
    ELSE IF col \in Range(art.zero_fill) THEN Num(0)
    ELSE NaN

IndicatorOf(t, col) ==
    [r \in t.rows |-> IF isna(t.cell[col][r]) THEN Num(1) ELSE Num(0)]

NullsFilled(art, before, after, col) ==
    \A r \in before.rows :
        isna(before.cell[col][r]) => after.cell[col][r] = FillValue(art, col)

\* C8 (as stated): for every add_missing_indicator column that is in the table
\* and targeted, the result has <col>__is_missing equal to 1 exactly on the
\* rows where <col> was null in the table passed to impute, and the nulls of
\* <col> are replaced by the fill value.
C8_IndicatorCapturesMissingAny ==
    call.op = "impute" =>
        \A col \in Range(imp_art.add_missing_indicator) :
            Targeted(call.before, call.cols, col) =>
                /\ IndicatorName(col) \in df.cols
                /\ df.cell[IndicatorName(col)] = IndicatorOf(call.before, col)
                /\ NullsFilled(imp_art, call.before, df, col)

\* C8 (amended): the same, for a table passed to impute that has no column
\* <col>__is_missing yet; a column <col>__is_missing that the table already
\* has is returned as it was.
C8_IndicatorCapturesMissing ==
    call.op = "impute" =>
        \A col \in Range(imp_art.add_missing_indicator) :
            Targeted(call.before, call.cols, col) =>
                /\ IndicatorName(col) \in df.cols
                /\ IF IndicatorName(col) \in call.before.cols
                   THEN df.cell[IndicatorName(col)] = call.before.cell[IndicatorName(col)]
                   ELSE df.cell[IndicatorName(col)] = IndicatorOf(call.before, col)
                /\ NullsFilled(imp_art, call.before, df, col)

\* C8 witness: a zero-fill column with a null and a non-null row got its
\* indicator (1 on the null row only) and a 0 in place of the null.
C8_Witness ==
    /\ call.op = "impute"
    /\ S \in Range(imp_art.add_missing_indicator)
    /\ S \in Range(imp_art.zero_fill)
    /\ Targeted(call.before, call.cols, S)
    /\ IndicatorName(S) \notin call.before.cols
    /\ \E r1, r2 \in df.rows :
          /\ isna(call.before.cell[S][r1]) /\ ~isna(call.before.cell[S][r2])
          /\ df.cell[IndicatorName(S)][r1] = Num(1)
          /\ df.cell[IndicatorName(S)][r2] = Num(0)
          /\ df.cell[S][r1] = Num(0)

\* ------------------------------------------- specification: outlier handling
P == Col("pre_issue_promoter_holding")

OutVals == {NaN, Str} \cup {Num(50 * i) : i \in -1..(MaxVal + 2)}
OutTables ==
    TablesOver({P}, OutVals)
    \cup {SetCol(t, A, Uniform(v)) :
            t \in TablesOver({P}, OutVals), v \in {NaN, Num(50), Num(150)}}

\* bounds as fit_outliers stores them: low <= high, or NaN for a column
\* without a non-null value in the reference table
BoundPairs ==
    {<<NaN, NaN>>, <<Num(50), Num(50)>>, <<Num(50), Num(125)>>, <<Num(125), Num(125)>>}

HardOf(c) == <<get_strategy(c).hard_min, get_strategy(c).hard_max>>

\* artifacts of the shape fit_outliers returns: percentile bounds for the
\* percentile policies, IQR bounds for iqr_filter, the strategy's hard bounds
OutArts ==
    {OutlierArtifacts(pb, ib, [c \in DOMAIN pb \cup DOMAIN ib |-> HardOf(c)]) :
        pb \in {<<>>} \cup {(P :> b) : b \in BoundPairs},
        ib \in {<<>>, (A :> <<NaN, NaN>>), (A :> <<Num(50), Num(125)>>)}}

OutColLists == {NoCols, <<P>>, <<A>>}

OutModes == {"clip", "drop", "winsorize"}

HandleOutliers(cols, mode) ==
    /\ call.op = "init"
    /\ IF ModeError(mode)
       THEN /\ ret' = Raised("ValueError")
            /\ UNCHANGED <<df, steps>>
       ELSE /\ df' = handle_outliers(out_art, df, cols, mode)
            /\ steps' = OutlierSteps(out_art, df, cols, mode)
            /\ ret' = NoRet
    /\ call' = [op |-> "handle_outliers", cols |-> cols, mode |-> mode, before |-> df, arg |-> <<>>]
    /\ UNCHANGED <<writer, fetcher, pool, transformer, imp_art, out_art, norm_art, file, loaded, money, fitted_on, trace, disk>>

InitOutlier ==
    /\ df \in OutTables
    /\ out_art \in OutArts
    /\ imp_art = NoImp
    /\ norm_art = NoNorm
    /\ call = NoCall
    /\ file = NoFile
    /\ loaded = <<>>
    /\ money = NoMoney
    /\ steps = <<>>
    /\ fitted_on = NoTable
    /\ ret = NoRet /\ writer = NoWriter /\ fetcher = NoFetcher /\ pool = NoPool /\ transformer = NoTransformer
    /\ trace = <<>>
    /\ disk = NoDisk

NextOutlier == \E cols \in OutColLists, mode \in OutModes : HandleOutliers(cols, mode)

SpecOutlier == InitOutlier /\ [][NextOutlier]_vars

\* the (low, high) entries of the artifacts that apply to col
FittedBounds(art, col) ==
    {art.pctl_bounds[c] : c \in {col} \cap DOMAIN art.pctl_bounds}
    \cup {art.iqr_bounds[c] : c \in {col} \cap DOMAIN art.iqr_bounds}

\* C3: after handle_outliers in clip mode, every non-null value of a targeted
\* column of the table lies within each fitted (low, high) of that column.
C3_WinsorizeBounds ==
    (call.op = "handle_outliers" /\ call.mode = "clip") =>
        \A col \in df.cols : \A b \in FittedBounds(out_art, col) :
            Targeted(call.before, call.cols, col) =>
                \A r \in df.rows :
                    ~isna(df.cell[col][r]) => between(df.cell[col][r], b[1], b[2])

\* C4: drop mode returns a subset of the input rows, and every surviving row
\* has in every targeted column with percentile or IQR bounds a value that is
\* null or within the bounds.
C4_DropMonotone ==
    (call.op = "handle_outliers" /\ call.mode = "drop") =>
        /\ df.rows \subseteq call.before.rows
        /\ Cardinality(df.rows) <= Cardinality(call.before.rows)
        /\ \A col \in df.cols : \A b \in FittedBounds(out_art, col) :
              Targeted(call.before, call.cols, col) =>
                  \A r \in df.rows :
                      isna(df.cell[col][r]) \/ between(df.cell[col][r], b[1], b[2])

\* C4 witness: a drop call that removed the row with a value above the upper
\* bound and kept a row with a value within the bounds.
C4_Witness ==
    /\ call.op = "handle_outliers" /\ call.mode = "drop"
    /\ P \in DOMAIN out_art.pctl_bounds
    /\ Targeted(call.before, call.cols, P)
    /\ \E r1 \in call.before.rows \ df.rows :
          /\ IsNum(call.before.cell[P][r1])
          /\ Leq(out_art.pctl_bounds[P][1], call.before.cell[P][r1])
    /\ \E r2 \in df.rows : IsNum(df.cell[P][r2])

\* C7: for every targeted column, the value the percentile step reads is the
\* value already clamped to the hard bounds, the IQR step reads the result of
\* the percentile step, and the returned value is the result of the IQR step.
C7_HardClipFirst ==
    (call.op = "handle_outliers" /\ call.mode \in {"clip", "drop"}) =>
        \A col \in DOMAIN out_art.hard_clip :
            Targeted(call.before, call.cols, col) =>
                \A r \in call.before.rows :
                    LET raw == to_numeric(call.before.cell[col][r])
                        h == clip(raw, out_art.hard_clip[col][1], out_art.hard_clip[col][2])
                        p == IF col \in DOMAIN out_art.pctl_bounds /\ call.mode = "clip"
                             THEN clip(h, out_art.pctl_bounds[col][1], out_art.pctl_bounds[col][2])
                             ELSE h
                        q == IF col \in DOMAIN out_art.iqr_bounds /\ call.mode = "clip"
                             THEN clip(p, out_art.iqr_bounds[col][1], out_art.iqr_bounds[col][2])
                             ELSE p
                    IN /\ steps.numeric.cell[col][r] = raw
                       /\ steps.hard.cell[col][r] = h
                       /\ steps.pctl.cell[col][r] = p
                       /\ steps.iqr.cell[col][r] = q
                       /\ r \in df.rows => df.cell[col][r] = q

\* C11: handle_outliers called with a mode other than "clip" or "drop" raises
\* ValueError and leaves every column of the table as it was given.
C11_InvalidModeFailsFast ==
    (call.op = "handle_outliers" /\ call.mode \notin {"clip", "drop"}) =>
        /\ ret.raised = "ValueError"
        /\ df = call.before
        /\ steps = <<>>

\* C11 witness: an invalid mode was rejected on a table that a clip call with
\* the same arguments would have changed.
C11_Witness ==
    /\ call.op = "handle_outliers" /\ call.mode = "winsorize"
    /\ ret.raised = "ValueError"
    /\ handle_outliers(out_art, call.before, call.cols, "clip") # call.before

\* the outlier policies that remove rows
FilterPolicies == {"iqr_filter", "percentile_filter"}

\* row r of the table given to the call fails the bounds of a targeted column
\* with a filter policy
FilteredOut(r) ==
    \E col \in call.before.cols : \E b \in FittedBounds(out_art, col) :
        /\ Targeted(call.before, call.cols, col)
        /\ HasStrategy(col) /\ get_strategy(col).outlier \in FilterPolicies
        /\ ~isna(steps.hard.cell[col][r])
        /\ ~between(steps.hard.cell[col][r], b[1], b[2])

\* C23: handle_outliers, in either mode, removes a row only when the row
\* fails the bounds of a targeted column whose policy is iqr_filter or
\* percentile_filter; a column with percentile_clip or
\* clip_then_percentile_clip never causes a row to be removed
C23_ClipPoliciesKeepRows ==
    (call.op = "handle_outliers" /\ call.mode \in {"clip", "drop"}) =>
        \A r \in call.before.rows \ df.rows : FilteredOut(r)

\* C7 witness: hard bounds [0, 100], a raw value of 150, and the percentile
\* step reading 100.
C7_Witness ==
    /\ call.op = "handle_outliers" /\ call.mode = "clip"
    /\ P \in DOMAIN out_art.pctl_bounds
    /\ out_art.hard_clip[P] = <<Num(0), Num(100)>>
    /\ Targeted(call.before, call.cols, P)
    /\ \E r \in df.rows :
          /\ call.before.cell[P][r] = Num(150)
          /\ steps.hard.cell[P][r] = Num(100)
          /\ IsNum(out_art.pctl_bounds[P][1])

\* --------------------------------------------- specification: normalization
E == Col("ebitda_margin")

NormVals == {NaN, Str} \cup {Num(i) : i \in -(MaxVal + 1)..MaxVal}
NormTables ==
    TablesOver({A}, NormVals) \cup TablesOver({E}, NormVals)
    \cup {Table({A, E}, Rows, (A :> Uniform(v)) @@ (E :> Uniform(w))) :
            v \in NormVals, w \in NormVals}

\* artifacts written by hand or loaded from a file
HandNormArts ==
    {NoNorm,
     NormalizationArtifacts(<<>>, <<>>, (E :> Num(2)), <<>>, <<>>),
     NormalizationArtifacts(<<>>, (E :> Num(1)), (E :> Num(2)), <<>>, <<>>),
     NormalizationArtifacts(<<>>, (E :> Num(1)), <<>>, (A :> Num(-1)), (A :> Num(1))),
     NormalizationArtifacts((S :> Num(0)), (E :> Num(1)), (E :> Num(2)), <<>>, <<>>)}

NormColLists == {NoCols, <<A>>, <<E, A>>}

FitNormalizer(cols) ==
    /\ call.op = "init"
    /\ norm_art' \in fit_normalizer(df, cols)
    /\ df' = FitNormalizerTable(df, cols)
    /\ fitted_on' = FitNormalizerTable(df, cols)
    /\ call' = [op |-> "fit_normalizer", cols |-> cols, mode |-> "", before |-> df, arg |-> <<>>]
    /\ UNCHANGED <<writer, fetcher, pool, transformer, imp_art, out_art, file, loaded, money, steps, ret, trace, disk>>

Normalize(cols) ==
    /\ call.op \in {"init", "fit_normalizer"}
    /\ df' = normalize(norm_art, df, cols)
    /\ call' = [op |-> "normalize", cols |-> cols, mode |-> "", before |-> df, arg |-> <<>>]
    /\ UNCHANGED <<writer, fetcher, pool, transformer, imp_art, out_art, norm_art, file, loaded, money, steps, fitted_on, ret, trace, disk>>

InitNorm ==
    /\ df \in NormTables
    /\ norm_art \in HandNormArts
    /\ imp_art = NoImp
    /\ out_art = NoOut
    /\ call = NoCall
    /\ file = NoFile
    /\ loaded = <<>>
    /\ money = NoMoney
    /\ steps = <<>>
    /\ fitted_on = NoTable
    /\ ret = NoRet /\ writer = NoWriter /\ fetcher = NoFetcher /\ pool = NoPool /\ transformer = NoTransformer
    /\ trace = <<>>
    /\ disk = NoDisk

NextNorm ==
    \/ \E cols \in NormColLists : FitNormalizer(cols)
    \/ \E cols \in NormColLists : Normalize(cols)

SpecNorm == InitNorm /\ [][NextNorm]_vars

\* C5: for every log1p column fitted by fit_normalizer, every non-null value v
\* of the fitting table has v + log1p_shift[col] > -1, a column whose minimum
\* is exactly -1 has a strictly positive shift, and normalize applied to the
\* fitting table gives a finite log1p for every non-null value.
C5_Log1pSafe ==
    /\ fitted_on # NoTable =>
          \A col \in DOMAIN norm_art.log1p_shift :
              /\ \A x \in NonNull(fitted_on, col) :
                    LET y == Add(x, norm_art.log1p_shift[col])
                    IN IsNum(y) /\ Leq(Num(-1), y) /\ y # Num(-1)
              /\ ColMin(fitted_on, col) = Num(-1) =>
                    (Leq(Num(0), norm_art.log1p_shift[col])
                        /\ norm_art.log1p_shift[col] # Num(0))
    /\ (call.op = "normalize" /\ fitted_on = call.before) =>
          \A col \in DOMAIN norm_art.log1p_shift :
              Targeted(call.before, call.cols, col) =>
                  \A r \in df.rows :
                      ~isna(call.before.cell[col][r]) => df.cell[col][r].t \in {"log1p", "num"}

\* C5 witness: a log1p column fitted on a table whose minimum is exactly -1.
C5_Witness ==
    /\ call.op = "fit_normalizer"
    /\ A \in DOMAIN norm_art.log1p_shift
    /\ ColMin(fitted_on, A) = Num(-1)
    /\ norm_art.log1p_shift[A] = Num(2)

\* a column of the table holds one value in every row
IsConstant(t, col) ==
    /\ t.rows # {}
    /\ \A r1, r2 \in t.rows : IsNum(t.cell[col][r1]) /\ t.cell[col][r1] = t.cell[col][r2]

\* C9: fit_normalizer followed by normalize with the resulting artifacts turns
\* every value of a constant robust_z column into 0.
C9_ConstantRobustZ ==
    (call.op = "normalize" /\ fitted_on # NoTable) =>
        \A col \in fitted_on.cols :
            (/\ HasStrategy(col)
             /\ get_strategy(col).normalization = "robust_z"
             /\ col \in DOMAIN norm_art.robust_iqr
             /\ IsConstant(fitted_on, col)
             /\ Targeted(call.before, call.cols, col))
                => \A r \in df.rows : df.cell[col][r] = Num(0)

\* C10: for a targeted column with an entry in robust_iqr and none in
\* robust_median, normalize outputs (value - 0.0) / robust_iqr[col] for every
\* non-null value.
C10_MissingMedianAsZero ==
    call.op = "normalize" =>
        \A col \in DOMAIN norm_art.robust_iqr \ DOMAIN norm_art.robust_median :
            Targeted(call.before, call.cols, col) =>
                \A r \in df.rows :
                    LET x == to_numeric(call.before.cell[col][r])
                    IN ~isna(x) =>
                          df.cell[col][r] = Div(Sub(x, Num(0)), norm_art.robust_iqr[col])

\* the columns that have an entry in one of the artifact dictionaries
FittedCols(art) ==
    DOMAIN art.log1p_shift \cup DOMAIN art.robust_median \cup DOMAIN art.robust_iqr
    \cup DOMAIN art.minmax_min \cup DOMAIN art.minmax_max

\* C17: normalize returns the columns and rows it was given, and every column
\* that is in none of the artifact dictionaries with every value unchanged,
\* also when artifact columns are missing from the table or the table has
\* columns that were not fitted.
C17_NormalizeFrame ==
    call.op = "normalize" =>
        /\ ret.raised = ""
        /\ df.cols = call.before.cols
        /\ df.rows = call.before.rows
        /\ \A c \in df.cols \ FittedCols(norm_art) :
              df.cell[c] = call.before.cell[c]

\* C17 witness: the artifacts name a column the table lacks, the table has a
\* targeted column the artifacts do not name, which is returned as it was
\* with its non-numeric cell, while a fitted column was transformed.
C17_Witness ==
    /\ call.op = "normalize"
    /\ df.cols = {A, E}
    /\ S \in FittedCols(norm_art)
    /\ A \notin FittedCols(norm_art)
    /\ A \in Range(select(call.before, call.cols))
    /\ \E r \in df.rows : df.cell[A][r] = Str
    /\ df.cell[E] # call.before.cell[E]

\* ------------------------------------- specification: artifact save and load
Kinds == {"imputer", "outlier", "normalizer"}

Save(kind) ==
    /\ call.op \in {"init", "save", "load"}
    /\ file' = [kind |-> kind,
                text |-> CASE kind = "imputer" -> ImputationToJson(imp_art)
                           [] kind = "outlier" -> OutlierToJson(out_art)
                           [] kind = "normalizer" -> NormalizationToJson(norm_art)]
    /\ call' = [op |-> "save", cols |-> <<>>, mode |-> kind, before |-> NoTable, arg |-> <<>>]
    /\ UNCHANGED <<writer, fetcher, pool, transformer, df, imp_art, out_art, norm_art, loaded, money, steps, fitted_on, ret, trace, disk>>

Load(kind) ==
    /\ call.op \in {"save", "load"}
    /\ file.kind = kind
    /\ loaded' = CASE kind = "imputer" -> ImputationFromJson(file.text)
                   [] kind = "outlier" -> OutlierFromJson(file.text)
                   [] kind = "normalizer" -> NormalizationFromJson(file.text)
    /\ call' = [op |-> "load", cols |-> <<>>, mode |-> kind, before |-> NoTable, arg |-> <<>>]
    /\ UNCHANGED <<writer, fetcher, pool, transformer, df, imp_art, out_art, norm_art, file, money, steps, fitted_on, ret, trace, disk>>

InitJson ==
    /\ df = NoTable
    /\ imp_art \in ImpArts
    /\ out_art \in OutArts
    /\ norm_art \in HandNormArts
    /\ call = NoCall
    /\ file = NoFile
    /\ loaded = <<>>
    /\ money = NoMoney
    /\ steps = <<>>
    /\ fitted_on = NoTable
    /\ ret = NoRet /\ writer = NoWriter /\ fetcher = NoFetcher /\ pool = NoPool /\ transformer = NoTransformer
    /\ trace = <<>>
    /\ disk = NoDisk

NextJson == \E kind \in Kinds : Save(kind) \/ Load(kind)

SpecJson == InitJson /\ [][NextJson]_vars

MoneyCurrency == {<<>>, <<"RS">>, <<"RS", " ">>}
MoneyNumbers ==
    {<<"3", "5", "6", ".", "1", "9">>, <<"2", "5", ".", "5">>,
     <<"1", ",", "6", "1", "7", ".", "3", "0">>, <<"4", "7", "3", ".", "8", "0">>, <<"5">>}
MoneyUnitTokens ==
    {<<"c", "r">>, <<"C", "r">>, <<"C", "R">>, <<"c", "r", "o", "r", "e">>,
     <<"C", "r", "o", "r", "e">>, <<"l", "a", "k", "h">>, <<"L", "a", "k", "h">>,
     <<"l", "a", "k", "h", "s">>, <<"L", "a", "k", "h", "s">>}

ParseMoney(cur, num, ws, unit, dot) ==
    /\ call.op = "init"
    /\ LET x == cur \o num \o ws \o unit \o (IF unit = <<>> THEN <<>> ELSE dot)
       IN money' = [in |-> x, number |-> num, unit |-> unit,
                    out |-> parse_indian_money_to_number(x)]
    /\ call' = [op |-> "parse_money", cols |-> <<>>, mode |-> "", before |-> NoTable, arg |-> <<>>]
    /\ UNCHANGED <<writer, fetcher, pool, transformer, df, imp_art, out_art, norm_art, file, loaded, steps, fitted_on, ret, trace, disk>>

InitMoney ==
    /\ df = NoTable
    /\ imp_art = NoImp
    /\ out_art = NoOut
    /\ norm_art = NoNorm
    /\ call = NoCall
    /\ file = NoFile
    /\ loaded = <<>>
    /\ money = NoMoney
    /\ steps = <<>>
    /\ fitted_on = NoTable
    /\ ret = NoRet /\ writer = NoWriter /\ fetcher = NoFetcher /\ pool = NoPool /\ transformer = NoTransformer
    /\ trace = <<>>
    /\ disk = NoDisk

NextMoney ==
    \E cur \in MoneyCurrency, num \in MoneyNumbers, ws \in {<<>>, <<" ">>},
       unit \in MoneyUnitTokens \cup {<<>>}, dot \in {<<>>, <<".">>} :
        ParseMoney(cur, num, ws, unit, dot)

SpecMoney == InitMoney /\ [][NextMoney]_vars

\* the decimal number a string of digits, commas and a point denotes
NumberOf(num) == ParseFloat(SelectSeq(num, LAMBDA ch : ch # ","))

\* C6: for a string with a unit token the parser returns the number itself
\* when the unit is cr/crore and the number divided by 100 when it is
\* lakh/lakhs.
C6_MoneyWithUnit ==
    (call.op = "parse_money" /\ money.unit # <<>>) =>
        money.out = IF Lower(money.unit) \in {<<"l", "a", "k", "h">>, <<"l", "a", "k", "h", "s">>}
                    THEN Div(NumberOf(money.number), Num(100))
                    ELSE NumberOf(money.number)

\* ------------------------------------------ specification: column selection
\* a column of the combined table that the registry does not know
X == Col("issue_price_x")
C == Col("company")

SelCols == {A, E, C, S, X}
SelTables == {Table(cs, Rows, [c \in cs |-> Uniform(Num(0))]) : cs \in SUBSET SelCols}
SelColLists ==
    {NoCols, <<>>} \cup {<<c>> : c \in SelCols} \cup {<<c1, c2>> : c1 \in SelCols, c2 \in SelCols}

Select(cols) ==
    /\ call.op = "init"
    /\ ret' = Returned(select(df, cols))
    /\ call' = [op |-> "select", cols |-> cols, mode |-> "", before |-> df, arg |-> <<>>]
    /\ UNCHANGED <<writer, fetcher, pool, transformer, df, imp_art, out_art, norm_art, file, loaded, money, steps, fitted_on,
                   trace, disk>>

InitSelect ==
    /\ df \in SelTables
    /\ imp_art = NoImp
    /\ out_art = NoOut
    /\ norm_art = NoNorm
    /\ call = NoCall
    /\ file = NoFile
    /\ loaded = <<>>
    /\ money = NoMoney
    /\ steps = <<>>
    /\ fitted_on = NoTable
    /\ ret = NoRet /\ writer = NoWriter /\ fetcher = NoFetcher /\ pool = NoPool /\ transformer = NoTransformer
    /\ trace = <<>>
    /\ disk = NoDisk

NextSelect == \E cols \in SelColLists : Select(cols)

SpecSelect == InitSelect /\ [][NextSelect]_vars

\* out keeps exactly the entries of req that are columns of t, in the order of req
IsExistingSubsequence(out, req, t) ==
    LET kept == {i \in DOMAIN req : req[i] \in t.cols}
    IN /\ Len(out) = Cardinality(kept)
       /\ \A i \in DOMAIN out :
             \E j \in kept :
                /\ out[i] = req[j]
                /\ Cardinality({k \in kept : k < j}) = i - 1

\* C12: select with an explicit list returns, without raising, exactly the
\* requested names that are columns of the table, in request order; with
\* cols = None it returns exactly the registry columns that are columns of
\* the table.
C12_SelectExisting ==
    call.op = "select" =>
        /\ ret.raised = ""
        /\ IF call.cols = NoCols
           THEN /\ Range(ret.val) = {c \in df.cols : HasStrategy(c)}
                /\ Len(ret.val) = Cardinality(Range(ret.val))
           ELSE IsExistingSubsequence(ret.val, call.cols, df)

\* C12 witness: a request naming a column the table lacks in front of one it
\* has returned only the second.
C12_Witness ==
    /\ call.op = "select"
    /\ call.cols = <<S, A>>
    /\ S \notin df.cols
    /\ X \in df.cols
    /\ ret.val = <<A>>

\* ------------------------------------------------- specification: fitting
FitVals == {NaN, Str} \cup {Num(i) : i \in 0..MaxVal}
FitBase == TablesOver({A}, FitVals) \cup TablesOver({P}, FitVals)
FitTables ==
    FitBase
    \cup {SetCol(t, C, Uniform(Str)) : t \in FitBase}
    \cup {SetCol(t, S, Uniform(v)) : t \in FitBase, v \in {NaN, Num(1)}}
FitColLists == {NoCols, <<A, C>>, <<P, S>>}

\* the number of partitions of the table handed to a fit
Partitions == {1, 2}

FitImputer(cols, npartitions) ==
    /\ call.op = "init"
    /\ df' = FitImputerTable(df, cols)
    /\ IF MedianRaises(df, cols, npartitions)
       THEN /\ ret' = Raised("NotImplementedError")
            /\ UNCHANGED imp_art
       ELSE /\ imp_art' \in fit_imputer(df, cols)
            /\ ret' = NoRet
    /\ call' = [op |-> "fit_imputer", cols |-> cols, mode |-> "", before |-> df, arg |-> <<>>]
    /\ UNCHANGED <<writer, fetcher, pool, transformer, out_art, norm_art, file, loaded, money, steps, fitted_on, trace, disk>>

FitOutliers(cols) ==
    /\ call.op = "init"
    /\ df' = FitOutliersTable(df, cols)
    /\ out_art' \in fit_outliers(df, cols)
    /\ call' = [op |-> "fit_outliers", cols |-> cols, mode |-> "", before |-> df, arg |-> <<>>]
    /\ UNCHANGED <<writer, fetcher, pool, transformer, imp_art, norm_art, file, loaded, money, steps, fitted_on, ret, trace,
                   disk>>

InitFit ==
    /\ df \in FitTables
    /\ imp_art = NoImp
    /\ out_art = NoOut
    /\ norm_art = NoNorm
    /\ call = NoCall
    /\ file = NoFile
    /\ loaded = <<>>
    /\ money = NoMoney
    /\ steps = <<>>
    /\ fitted_on = NoTable
    /\ ret = NoRet /\ writer = NoWriter /\ fetcher = NoFetcher /\ pool = NoPool /\ transformer = NoTransformer
    /\ trace = <<>>
    /\ disk = NoDisk

NextFit ==
    \E cols \in FitColLists :
        \/ \E np \in Partitions : FitImputer(cols, np)
        \/ FitOutliers(cols)

SpecFit == InitFit /\ [][NextFit]_vars

\* the calls that take a table
TableOps ==
    {"fit_imputer", "fit_outliers", "fit_normalizer", "impute", "handle_outliers",
     "normalize"}

\* C13: after a fit or an apply, the table object that was passed in has the
\* same columns and values as before the call.
C13_NoInPlaceMutation ==
    call.op \in TableOps => df = call.before

\* C15: the medians returned by fit_imputer have an entry only for median
\* columns with at least one non-null value in the reference table, and no
\* entry is NaN.
C15_DegenerateMedianSurfaced ==
    (call.op = "fit_imputer" /\ ret.raised = "") =>
        \A c \in DOMAIN imp_art.medians :
            /\ NonNull(df, c) # {}
            /\ ~isna(imp_art.medians[c])

\* C16: for every targeted column of the table that has a registry strategy,
\* hard_clip returned by fit_outliers holds the strategy's (hard_min,
\* hard_max), whatever the outlier policy.
C16_HardBoundsRecorded ==
    call.op = "fit_outliers" =>
        \A c \in Range(select(call.before, call.cols)) :
            HasStrategy(c) =>
                /\ c \in DOMAIN out_art.hard_clip
                /\ out_art.hard_clip[c] = <<get_strategy(c).hard_min, get_strategy(c).hard_max>>

\* --------------------------------------------- specification: create_gold
\* the statements of create_gold after the silver table is read, in code order
\* with the normalizer saved only after the table has been imputed
create_gold_steps_mut ==
    <<"fit_imputer", "save_imputer", "fit_outliers", "save_outlier",
      "fit_normalizer", "select", "impute", "save_normalizer",
      "handle_outliers", "normalize", "to_csv">>

\* the statements of create_gold after the silver table is read, in code order
create_gold_steps ==
    <<"fit_imputer", "save_imputer", "fit_outliers", "save_outlier",
      "fit_normalizer", "save_normalizer", "select", "impute",
      "handle_outliers", "normalize", "to_csv">>

\* the statement create_gold executes next; "end" once it has returned or raised
NextStep ==
    IF ret.raised # "" \/ Len(trace) >= Len(create_gold_steps) THEN "end"
    ELSE create_gold_steps[Len(trace) + 1]

WriteFile(d, name, content) ==
    [n \in DOMAIN d \cup {name} |-> IF n = name THEN content ELSE d[n]]

\* silver_df[names]
Project(t, names) ==
    Table(Range(names), t.rows, [c \in Range(names) |-> t.cell[c]])

GoldTables == FitTables
GoldColLists == {NoCols, <<A, C>>, <<P, S>>}

GoldFitImputer(npartitions) ==
    /\ NextStep = "fit_imputer"
    /\ df' = FitImputerTable(df, call.cols)
    /\ IF MedianRaises(df, call.cols, npartitions)
       THEN /\ ret' = Raised("NotImplementedError")
            /\ UNCHANGED imp_art
       ELSE /\ imp_art' \in fit_imputer(df, call.cols)
            /\ ret' = NoRet
    /\ trace' = Append(trace, "fit_imputer")
    /\ UNCHANGED <<writer, fetcher, pool, transformer, out_art, norm_art, call, file, loaded, money, steps, fitted_on, disk>>

GoldSaveImputer ==
    /\ NextStep = "save_imputer"
    /\ disk' = WriteFile(disk, "imputer.json", ImputationToJson(imp_art))
    /\ trace' = Append(trace, "save_imputer")
    /\ UNCHANGED <<writer, fetcher, pool, transformer, df, imp_art, out_art, norm_art, call, file, loaded, money, steps,
                   fitted_on, ret>>

GoldFitOutliers ==
    /\ NextStep = "fit_outliers"
    /\ df' = FitOutliersTable(df, call.cols)
    /\ out_art' \in fit_outliers(df, call.cols)
    /\ trace' = Append(trace, "fit_outliers")
    /\ UNCHANGED <<writer, fetcher, pool, transformer, imp_art, norm_art, call, file, loaded, money, steps, fitted_on, ret,
                   disk>>

GoldSaveOutlier ==
    /\ NextStep = "save_outlier"
    /\ disk' = WriteFile(disk, "outlier.json", OutlierToJson(out_art))
    /\ trace' = Append(trace, "save_outlier")
    /\ UNCHANGED <<writer, fetcher, pool, transformer, df, imp_art, out_art, norm_art, call, file, loaded, money, steps,
                   fitted_on, ret>>

GoldFitNormalizer ==
    /\ NextStep = "fit_normalizer"
    /\ df' = FitNormalizerTable(df, call.cols)
    /\ norm_art' \in fit_normalizer(df, call.cols)
    /\ fitted_on' = FitNormalizerTable(df, call.cols)
    /\ trace' = Append(trace, "fit_normalizer")
    /\ UNCHANGED <<writer, fetcher, pool, transformer, imp_art, out_art, call, file, loaded, money, steps, ret, disk>>

GoldSaveNormalizer ==
    /\ NextStep = "save_normalizer"
    /\ disk' = WriteFile(disk, "normalizer.json", NormalizationToJson(norm_art))
    /\ trace' = Append(trace, "save_normalizer")
    /\ UNCHANGED <<writer, fetcher, pool, transformer, df, imp_art, out_art, norm_art, call, file, loaded, money, steps,
                   fitted_on, ret>>

GoldSelect ==
    /\ NextStep = "select"
    /\ df' = Project(df, select(df, call.cols))
    /\ trace' = Append(trace, "select")
    /\ UNCHANGED <<writer, fetcher, pool, transformer, imp_art, out_art, norm_art, call, file, loaded, money, steps,
                   fitted_on, ret, disk>>

GoldImpute ==
    /\ NextStep = "impute"
    /\ df' = impute(imp_art, df, call.cols)
    /\ trace' = Append(trace, "impute")
    /\ UNCHANGED <<writer, fetcher, pool, transformer, imp_art, out_art, norm_art, call, file, loaded, money, steps,
                   fitted_on, ret, disk>>

GoldHandleOutliers ==
    /\ NextStep = "handle_outliers"
    /\ df' = handle_outliers(out_art, df, call.cols, "clip")
    /\ steps' = OutlierSteps(out_art, df, call.cols, "clip")
    /\ trace' = Append(trace, "handle_outliers")
    /\ UNCHANGED <<writer, fetcher, pool, transformer, imp_art, out_art, norm_art, call, file, loaded, money, fitted_on, ret,
                   disk>>

GoldNormalize ==
    /\ NextStep = "normalize"
    /\ df' = normalize(norm_art, df, call.cols)
    /\ trace' = Append(trace, "normalize")
    /\ UNCHANGED <<writer, fetcher, pool, transformer, imp_art, out_art, norm_art, call, file, loaded, money, steps,
                   fitted_on, ret, disk>>

GoldToCsv ==
    /\ NextStep = "to_csv"
    /\ disk' = WriteFile(disk, "gold.csv", df)
    /\ trace' = Append(trace, "to_csv")
    /\ UNCHANGED <<writer, fetcher, pool, transformer, df, imp_art, out_art, norm_art, call, file, loaded, money, steps,
                   fitted_on, ret>>

InitGold ==
    /\ df \in GoldTables
    /\ \E cols \in GoldColLists :
          call = [op |-> "create_gold", cols |-> cols, mode |-> "", before |-> df, arg |-> <<>>]
    /\ imp_art = NoImp
    /\ out_art = NoOut
    /\ norm_art = NoNorm
    /\ file = NoFile
    /\ loaded = <<>>
    /\ money = NoMoney
    /\ steps = <<>>
    /\ fitted_on = NoTable
    /\ ret = NoRet /\ writer = NoWriter /\ fetcher = NoFetcher /\ pool = NoPool /\ transformer = NoTransformer
    /\ trace = <<>>
    /\ disk = NoDisk

NextGold ==
    \/ \E np \in Partitions : GoldFitImputer(np)
    \/ GoldSaveImputer
    \/ GoldFitOutliers
    \/ GoldSaveOutlier
    \/ GoldFitNormalizer
    \/ GoldSaveNormalizer
    \/ GoldSelect
    \/ GoldImpute
    \/ GoldHandleOutliers
    \/ GoldNormalize
    \/ GoldToCsv

SpecGold == InitGold /\ [][NextGold]_vars

\* position of a step in the trace, 0 when it has not run
TracePos(step) ==
    IF \E i \in DOMAIN trace : trace[i] = step
    THEN CHOOSE i \in DOMAIN trace : trace[i] = step
    ELSE 0

Done(step) == TracePos(step) > 0
Before(s1, s2) == Done(s2) => (Done(s1) /\ TracePos(s1) < TracePos(s2))
RightAfter(s1, s2) == Done(s2) => (Done(s1) /\ TracePos(s2) = TracePos(s1) + 1)

\* C14: in a run of create_gold each artifact is saved right after its fit and
\* before the next fit, the three artifact files exist before the first
\* apply, the applies run in the order impute, handle_outliers (clip),
\* normalize, and the gold table is written last.
C14_GoldStepOrder ==
    /\ \A i, j \in DOMAIN trace : i # j => trace[i] # trace[j]
    /\ RightAfter("fit_imputer", "save_imputer")
    /\ RightAfter("save_imputer", "fit_outliers")
    /\ RightAfter("fit_outliers", "save_outlier")
    /\ RightAfter("save_outlier", "fit_normalizer")
    /\ RightAfter("fit_normalizer", "save_normalizer")
    /\ \A a \in {"impute", "handle_outliers", "normalize"} :
          /\ Before("save_normalizer", a)
          /\ Done(a) => {"imputer.json", "outlier.json", "normalizer.json"} \subseteq DOMAIN disk
    /\ Before("select", "impute")
    /\ Before("impute", "handle_outliers")
    /\ Before("handle_outliers", "normalize")
    /\ Before("normalize", "to_csv")
    /\ Done("to_csv") => (trace[Len(trace)] = "to_csv" /\ "gold.csv" \in DOMAIN disk)
    /\ "gold.csv" \in DOMAIN disk => Done("to_csv")
    /\ Done("save_imputer") => disk["imputer.json"] = ImputationToJson(imp_art)
    /\ Done("save_outlier") => disk["outlier.json"] = OutlierToJson(out_art)
    /\ Done("save_normalizer") => disk["normalizer.json"] = NormalizationToJson(norm_art)

\* C14 witness: a complete run whose gold table differs from the silver table.
C14_Witness ==
    /\ call.op = "create_gold"
    /\ Len(trace) = 11
    /\ "gold.csv" \in DOMAIN disk
    /\ disk["gold.csv"] # call.before
    /\ DOMAIN imp_art.medians # {}

\* ------------------------------------------------- the parsers, one call
\* strings seen in the scraped files, and malformed ones
ParseSamples ==
    {<<"[", "CIRCLE", "]">>,
     <<"[", "BULLET", "]">>,
     <<"EMDASH">>,
     <<" ", "-", " ">>,
     <<"N", "A">>,
     <<"N", "/", "A">>,
     <<"n", "u", "l", "l">>,
     <<"N", "o", "n", "e">>,
     <<>>,
     <<"1", ",", "6", "1", "7", ".", "3", "0">>,
     <<"-", "3", ".", "2", "0">>,
     <<"1", "1", "5">>,
     <<"a", "b", "c">>,
     <<"1", ".", "2", ".", "3">>,
     <<"1", "2", "a", "b", "c">>,
     <<"n", "a", "n">>,
     <<"i", "n", "f">>,
     <<"7", ".", "1", "4", "%">>,
     <<"1", "0", "0", " ", "%">>,
     <<"%">>,
     <<"0", ".", "4", "3">>,
     <<"3", "1", "s", "t", " ", "M", "a", "r", "c", "h", " ", "2", "0", "1", "5">>,
     <<"1", "0", "t", "h", " ", "D", "e", "c", "e", "m", "b", "e", "r", " ", "2", "0", "2", "5">>,
     <<"2", "0", "2", "5", "-", "1", "2", "-", "1", "0">>,
     <<"3", "1", "/", "0", "3", "/", "2", "0", "1", "5">>,
     <<"3", "1", "-", "0", "3", "-", "2", "0", "1", "5">>,
     <<"3", "1", " ", "M", "a", "r", " ", "2", "0", "1", "5">>,
     <<"2", "9", " ", "F", "e", "b", "r", "u", "a", "r", "y", " ", "2", "0", "1", "6">>,
     <<"3", "1", " ", "F", "e", "b", "r", "u", "a", "r", "y", " ", "2", "0", "1", "5">>,
     <<"3", "2", "/", "1", "3", "/", "2", "0", "1", "5">>,
     <<"M", "a", "r", "c", "h", " ", "3", "1", ",", " ", "2", "0", "1", "5">>,
     <<"1", " ", "m", "a", "y", " ", "2", "0", "2", "4">>,
     <<"2", "n", "d", " ", " ", "A", "u", "g", " ", "2", "0", "2", "1">>,
     <<"a", " ", " ", "b">>,
     <<" ", "a", " ", "b", " ">>,
     <<"a", "TAB", "b">>,
     <<"a", " ", "TAB", " ", "b">>,
     <<"A", "b", "c", " ", " ", "L", "t", "d", ".">>,
     <<"A", "&", "B">>,
     <<"_", "_", "_">>,
     <<"RS", " ", "3", "5", "6", ".", "1", "9", " ", "C", "r", ".">>,
     <<"RS", " ", "2", "5", ".", "5", " ", "L", "a", "k", "h">>,
     <<"c", "r">>}

\* every string of at most ShortLen characters over ShortAlphabet
ShortLen == 2
ShortAlphabet == {" ", "1", "a", "-", "%", ".", ","}
ShortStrings == UNION {[1..n -> ShortAlphabet] : n \in 0..ShortLen}

\* the arguments of a parser: None or a string
ParseInputs == {InputNone} \cup ParseSamples \cup ShortStrings

ParserNames ==
    {"parse_indian_money_to_number", "parse_number", "parse_percentage", "parse_date",
     "normalize_company_slug", "parse_text", "parse_listlike_text"}

\* the outcomes a call of a parser of Parser can have
Outcomes(parser, x) ==
    CASE parser = "parse_indian_money_to_number" -> {Returned(parse_indian_money_to_number(x))}
      [] parser = "parse_number" -> {parse_number(x)}
      [] parser = "parse_percentage" -> {parse_percentage(x)}
      [] parser = "parse_date" -> parse_date(x)
      [] parser = "normalize_company_slug" -> {normalize_company_slug(x)}
      [] parser = "parse_text" -> {parse_text(x)}
      [] parser = "parse_listlike_text" -> {parse_listlike_text(x)}

\* one call of a parser on the drawn argument
Parse(parser) ==
    /\ call.op = "init"
    /\ call' = [call EXCEPT !.op = parser]
    /\ ret' \in Outcomes(parser, call.arg)
    /\ UNCHANGED <<writer, fetcher, pool, transformer, df, imp_art, out_art, norm_art, file, loaded, money, steps, fitted_on,
                   trace, disk>>

InitParse ==
    /\ df = NoTable /\ imp_art = NoImp /\ out_art = NoOut /\ norm_art = NoNorm
    /\ \E x \in ParseInputs : call = [NoCall EXCEPT !.arg = x]
    /\ file = NoFile /\ loaded = <<>> /\ money = NoMoney
    /\ steps = <<>> /\ fitted_on = NoTable
    /\ ret = NoRet /\ writer = NoWriter /\ fetcher = NoFetcher /\ pool = NoPool /\ transformer = NoTransformer /\ trace = <<>> /\ disk = NoDisk

NextParse == \E parser \in ParserNames : Parse(parser)

SpecParse == InitParse /\ [][NextParse]_vars

\* a call of parser has returned
Called(parser) == call.op = parser /\ ret.raised = "" /\ ret # NoRet

\* the string with leading and trailing whitespace removed and every internal
\* run of whitespace replaced by one space
NormalizedText(x) == SubRuns(Strip(x), SpaceChars, <<" ">>)

\* C18: parse_text returns null for a placeholder or empty string, and for any
\* other string the string trimmed with every internal run of whitespace
\* normalised to a single space
C18_TextWhitespace ==
    call.op = "parse_text" =>
        /\ ret.raised = ""
        /\ ret.val = IF IsMissing(call.arg) THEN None ELSE Text(NormalizedText(call.arg))

\* strings no number parser accepts
MalformedNumbers ==
    {<<"a", "b", "c">>, <<"1", ".", "2", ".", "3">>, <<"1", "2", "a", "b", "c">>, <<"%">>,
     <<"1", "-">>, <<".">>, <<"a">>, <<"-", "-">>}
NumberParsers == {"parse_indian_money_to_number", "parse_number", "parse_percentage"}
TextParsers == {"normalize_company_slug", "parse_text", "parse_listlike_text"}

\* the types a parser may return
ReturnTypes(parser) ==
    IF parser \in NumberParsers THEN {"num", "nan", "inf", "none"}
    ELSE IF parser = "parse_date" THEN {"date", "none"}
    ELSE {"text", "none"}

\* C19: every parser, on None and on every string, returns a typed value or
\* null and never raises; a placeholder yields null in every parser and a
\* malformed number yields null in the number parsers
C19_ParsersTotal ==
    call.op \in ParserNames =>
        /\ ret.raised = ""
        /\ ret.val.t \in ReturnTypes(call.op)
        /\ IsMissing(call.arg) => ret.val.t = "none"
        /\ (call.op \in NumberParsers /\ call.arg \in MalformedNumbers) => ret.val.t = "none"

C19_Witness ==
    /\ call.op = "parse_number" /\ call.arg = <<"a", "b", "c">>
    /\ ret = Returned(None)

\* ---------------------------------------------------------- create_bronze
\* config["segments"]
segments == <<"mainboard", "sme">>
common_field == "company"

BronzeCompanies == {"a", "b"}
BronzeDates == {1, 2}

\* a row of the first csv file of a segment, and one of a further file
FirstRows == [company : BronzeCompanies, open_date : BronzeDates]
MoreRows == [company : {"a"}, lot_size : {1, 2}]

\* the first file of a segment: 1..MaxRows rows
FirstFiles == UNION {[1..n -> FirstRows] : n \in 1..MaxRows}

\* a further file of a segment: absent, or one or two rows of one company
MoreFiles ==
    {<<>>, <<[company |-> "a", lot_size |-> 1]>>,
     <<[company |-> "a", lot_size |-> 1], [company |-> "a", lot_size |-> 2]>>}

InputName(segment, k) == <<"csv", segment, k>>
BronzeName(segment) == <<"bronze", segment>>

\* sorted(os.listdir(input_path)): the files of the segment that exist
listdir(d, segment) ==
    IF InputName(segment, 2) \in DOMAIN d
    THEN <<InputName(segment, 1), InputName(segment, 2)>>
    ELSE <<InputName(segment, 1)>>

\* a row over the columns of l and of r, the values of l first
JoinRow(l, r) == [c \in DOMAIN l \cup DOMAIN r |-> IF c \in DOMAIN l THEN l[c] ELSE r[c]]

\* the columns of a frame with at least one row
Columns(frame) == UNION {DOMAIN frame[i] : i \in DOMAIN frame}

\* left.merge(right, on=common_field, how="left"): every row of left, once
\* per row of right with its company, or once with nulls
RECURSIVE merge(_, _)
merge(left, right) ==
    IF left = <<>> THEN <<>>
    ELSE LET l == Head(left)
             hits == SelectSeq(right, LAMBDA r : r[common_field] = l[common_field])
             nulls == [c \in Columns(right) |-> "nan"]
         IN (IF hits = <<>> THEN <<JoinRow(l, nulls)>>
             ELSE [i \in DOMAIN hits |-> JoinRow(l, hits[i])])
            \o merge(Tail(left), right)

\* the frame of one segment before drop_duplicates: the first file, merged
\* with every further file
SegmentFrame(d, segment) ==
    LET files == listdir(d, segment)
    IN IF Len(files) = 1 THEN d[files[1]] ELSE merge(d[files[1]], d[files[2]])

\* dd.concat(frames, axis=0) of two frames: the rows of both over the union
\* of the columns
concat(f, g) ==
    LET cs == Columns(f) \cup Columns(g)
        Fill(r) == [c \in cs |-> IF c \in DOMAIN r THEN r[c] ELSE "nan"]
    IN [i \in DOMAIN f |-> Fill(f[i])] \o [i \in DOMAIN g |-> Fill(g[i])]

\* the data frame library in use: no version is pinned
DaskBuilds == {"legacy", "expr"}

\* df.drop_duplicates(subset=..., inplace=True) on a dask frame: the frame df
\* names afterwards. A dask frame is never changed in place: the legacy
\* implementation passes inplace on and builds a new lazy frame, which the
\* caller drops; the expression implementation has no such keyword
drop_duplicates_inplace(frame, subset, build) ==
    IF build = "expr" THEN Raised("TypeError") ELSE Returned(frame)

\* the files of disk d after the loop over the segments
SegmentsWritten(d) ==
    [n \in DOMAIN d \cup {BronzeName(segments[i]) : i \in DOMAIN segments} |->
        IF \E i \in DOMAIN segments : n = BronzeName(segments[i])
        THEN LET i == CHOOSE i \in DOMAIN segments : n = BronzeName(segments[i])
             IN drop_duplicates_inplace(SegmentFrame(d, segments[i]), {common_field},
                                        "legacy").val
        ELSE d[n]]

\* create_bronze
CreateBronze(build) ==
    /\ call.op = "init"
    /\ call' = [call EXCEPT !.op = "create_bronze"]
    /\ LET first == drop_duplicates_inplace(SegmentFrame(disk, segments[1]),
                                            {common_field}, build)
           d1 == SegmentsWritten(disk)
           all == concat(d1[BronzeName(segments[1])], d1[BronzeName(segments[2])])
           combined == drop_duplicates_inplace(all, {common_field, "open_date"}, build)
       IN IF first.raised # ""
          THEN ret' = first /\ UNCHANGED <<disk, trace>>
          ELSE /\ disk' = WriteFile(d1, BronzeName("combined"), combined.val)
               /\ trace' = segments \o <<"combined">>
               /\ ret' = Returned(None)
    /\ UNCHANGED <<writer, fetcher, pool, transformer, df, imp_art, out_art, norm_art, file, loaded, money, steps, fitted_on>>

InitBronze ==
    /\ df = NoTable /\ imp_art = NoImp /\ out_art = NoOut /\ norm_art = NoNorm
    /\ call = NoCall /\ file = NoFile /\ loaded = <<>> /\ money = NoMoney
    /\ steps = <<>> /\ fitted_on = NoTable
    /\ ret = NoRet /\ writer = NoWriter /\ fetcher = NoFetcher /\ pool = NoPool /\ transformer = NoTransformer /\ trace = <<>>
    /\ \E f1 \in FirstFiles, f2 \in MoreFiles, g1 \in FirstFiles :
          disk = IF f2 = <<>>
                 THEN (InputName("mainboard", 1) :> f1) @@ (InputName("sme", 1) :> g1)
                 ELSE (InputName("mainboard", 1) :> f1) @@ (InputName("mainboard", 2) :> f2)
                      @@ (InputName("sme", 1) :> g1)

NextBronze == \E build \in DaskBuilds : CreateBronze(build)

SpecBronze == InitBronze /\ [][NextBronze]_vars

\* no two rows of the frame agree on every column of subset
Unique(frame, subset) ==
    \A i, j \in DOMAIN frame :
        i # j => \E c \in subset : frame[i][c] # frame[j][c]

\* C20: the combined bronze table create_bronze writes never holds two rows
\* with the same (company, open_date), and a segment's bronze table never
\* holds two rows with the same company
C20_BronzeDeduplicated ==
    call.op = "create_bronze" =>
        /\ BronzeName("combined") \in DOMAIN disk =>
               Unique(disk[BronzeName("combined")], {"company", "open_date"})
        /\ \A i \in DOMAIN segments :
               BronzeName(segments[i]) \in DOMAIN disk =>
                   Unique(disk[BronzeName(segments[i])], {"company"})

\* -------------------------------------------------------- DynamicCSVWriter
MaxWrites == 3

\* keys of the extracted rows, in the order sorted() gives them
RowKeys == <<"a", "b", "c">>

\* the rows an extractor returns: a mapping from some keys to values, the
\* empty mapping when the extraction failed
CellTexts(k) == IF k = "a" THEN {"1", "2"} ELSE {"1"}
ExtractedRows ==
    UNION {{r \in [ks -> {"1", "2"}] : \A k \in ks : r[k] \in CellTexts(k)} :
              ks \in SUBSET Range(RowKeys)}

\* sorted(new_cols)
sorted(keys) == SelectSeq(RowKeys, LAMBDA k : k \in keys)

\* list(row_keys): the keys of a set in the order the interpreter iterates it
list(keys) ==
    {p \in [1..Cardinality(keys) -> keys] : \A i, j \in DOMAIN p : i # j => p[i] # p[j]}

\* a csv file: the header line and the data lines, each a mapping from the
\* columns of the header it was written under to cell texts
CsvFile(header, rows) == [header |-> header, rows |-> rows]

\* csv.DictWriter(f, fieldnames).writerow(row): one cell per field, empty for
\* a field the row lacks
writerow(fieldnames, row) ==
    [c \in Range(fieldnames) |-> IF c \in DOMAIN row THEN row[c] ELSE ""]

\* csv.DictReader(src): the data lines as mappings, blank lines skipped
DictReader(f) == SelectSeq(f.rows, LAMBDA r : DOMAIN r # {})

\* _rewrite_with_new_header: the file rewritten under new_fieldnames
_rewrite_with_new_header(f, new_fieldnames) ==
    LET old == DictReader(f)
    IN CsvFile(new_fieldnames, [i \in DOMAIN old |-> writerow(new_fieldnames, old[i])])

\* DynamicCSVWriter(filepath)
DynamicCSVWriter == [fieldnames |-> <<>>, _rows_written |-> 0]
filepath == "section.csv"

\* write_row
WriteRow(row) ==
    /\ Len(trace) < MaxWrites
    /\ call' = [op |-> "write_row", cols |-> <<>>, mode |-> "",
                before |-> IF filepath \in DOMAIN disk THEN disk[filepath] ELSE CsvFile(<<>>, <<>>),
                arg |-> row]
    /\ trace' = Append(trace, row)
    /\ IF writer.fieldnames = <<>>
       THEN \E fieldnames \in list(DOMAIN row) :
               /\ writer' = [fieldnames |-> fieldnames,
                             _rows_written |-> writer._rows_written + 1]
               /\ disk' = WriteFile(disk, filepath,
                                    CsvFile(fieldnames, <<writerow(fieldnames, row)>>))
       ELSE LET new_cols == DOMAIN row \ Range(writer.fieldnames)
                fieldnames == IF new_cols # {} THEN writer.fieldnames \o sorted(new_cols)
                              ELSE writer.fieldnames
                f == IF new_cols # {} THEN _rewrite_with_new_header(disk[filepath], fieldnames)
                     ELSE disk[filepath]
            IN /\ writer' = [fieldnames |-> fieldnames,
                             _rows_written |-> writer._rows_written + 1]
               /\ disk' = WriteFile(disk, filepath,
                                    CsvFile(f.header, Append(f.rows, writerow(fieldnames, row))))
    /\ ret' = Returned(None)
    /\ UNCHANGED <<df, imp_art, out_art, norm_art, file, loaded, money, steps, fitted_on,
                   fetcher, pool, transformer>>

InitWriter ==
    /\ df = NoTable /\ imp_art = NoImp /\ out_art = NoOut /\ norm_art = NoNorm
    /\ call = NoCall /\ file = NoFile /\ loaded = <<>> /\ money = NoMoney
    /\ steps = <<>> /\ fitted_on = NoTable
    /\ ret = NoRet /\ trace = <<>> /\ disk = NoDisk
    /\ writer = DynamicCSVWriter /\ fetcher = NoFetcher /\ pool = NoPool /\ transformer = NoTransformer

NextWriter == \E row \in ExtractedRows : WriteRow(row)

SpecWriter == InitWriter /\ [][NextWriter]_vars

IsPrefix(s, t) == Len(s) <= Len(t) /\ SubSeq(t, 1, Len(s)) = s

\* the file of the writer after at least one write_row
Written == disk[filepath]

\* C21: after any sequence of write_row calls the header holds every key of
\* every written row, the header before the last call is a prefix of the
\* header after it, and every row written earlier keeps its values under its
\* columns with empty cells under the columns it lacks
C21_SchemaOnlyGrows ==
    call.op = "write_row" =>
        /\ \A k \in DOMAIN trace : DOMAIN trace[k] \subseteq Range(Written.header)
        /\ IsPrefix(call.before.header, Written.header)
        /\ \A k \in DOMAIN call.before.rows :
              /\ k \in DOMAIN Written.rows
              /\ \A c \in Range(Written.header) :
                    Written.rows[k][c] =
                        IF c \in DOMAIN call.before.rows[k] THEN call.before.rows[k][c] ELSE ""

\* C27: after n write_row calls the file holds exactly n data rows, the k-th
\* one holding the k-th row written, and _rows_written is n
C27_NoRowLost ==
    call.op = "write_row" =>
        /\ writer._rows_written = Len(trace)
        /\ Len(Written.rows) = Len(trace)
        /\ \A k \in DOMAIN trace :
              \A c \in DOMAIN trace[k] : Written.rows[k][c] = trace[k][c]

\* ------------------------------------------------- Column Policy Registry
\* the members of IPOColumn in definition order: column, metric, strategy
IPOColumn ==
    <<[col |-> "assets", metric |-> "amount", strategy |-> DEFAULT_AMOUNT_STRATEGY],
      [col |-> "net_worth", metric |-> "amount", strategy |-> DEFAULT_AMOUNT_STRATEGY],
      [col |-> "total_debt", metric |-> "amount", strategy |-> DEFAULT_AMOUNT_STRATEGY],
      [col |-> "revenue", metric |-> "amount", strategy |-> DEFAULT_AMOUNT_STRATEGY],
      [col |-> "ebitda", metric |-> "amount", strategy |-> DEFAULT_AMOUNT_STRATEGY],
      [col |-> "pat", metric |-> "amount", strategy |-> DEFAULT_AMOUNT_STRATEGY],
      [col |-> "ebitda_margin", metric |-> "percentage", strategy |-> Strategy("median", "percentile_clip", "robust_z", None, None)],
      [col |-> "pat_margin", metric |-> "percentage", strategy |-> Strategy("median", "percentile_clip", "robust_z", None, None)],
      [col |-> "eps", metric |-> "price", strategy |-> DEFAULT_PRICE_STRATEGY],
      [col |-> "roe", metric |-> "percentage", strategy |-> Strategy("median", "percentile_clip", "robust_z", None, None)],
      [col |-> "roce", metric |-> "percentage", strategy |-> Strategy("median", "percentile_clip", "robust_z", None, None)],
      [col |-> "roa", metric |-> "percentage", strategy |-> Strategy("median", "percentile_clip", "robust_z", None, None)],
      [col |-> "debt_to_equity", metric |-> "ratio", strategy |-> Strategy("median", "percentile_clip", "robust_z", None, None)],
      [col |-> "market_capitalisation", metric |-> "amount", strategy |-> DEFAULT_AMOUNT_STRATEGY],
      [col |-> "enterprise_value", metric |-> "amount", strategy |-> DEFAULT_AMOUNT_STRATEGY],
      [col |-> "ev_ebitda", metric |-> "times", strategy |-> Strategy("median", "percentile_clip", "robust_z", None, None)],
      [col |-> "pe_multiple", metric |-> "times", strategy |-> Strategy("median", "percentile_clip", "robust_z", None, None)],
      [col |-> "pb_multiple", metric |-> "times", strategy |-> Strategy("median", "percentile_clip", "robust_z", None, None)],
      [col |-> "nav", metric |-> "price", strategy |-> DEFAULT_PRICE_STRATEGY],
      [col |-> "company", metric |-> "text", strategy |-> DEFAULT_TEXT_DATE_STRATEGY],
      [col |-> "ipo_open_gmp", metric |-> "price", strategy |-> Strategy("median", "percentile_clip", "none", None, None)],
      [col |-> "ipo_close_gmp", metric |-> "price", strategy |-> Strategy("median", "percentile_clip", "none", None, None)],
      [col |-> "ipo_allotment_gmp", metric |-> "price", strategy |-> Strategy("median", "percentile_clip", "none", None, None)],
      [col |-> "ipo_listing_gmp", metric |-> "price", strategy |-> Strategy("median", "percentile_clip", "none", None, None)],
      [col |-> "ipo_category", metric |-> "text", strategy |-> DEFAULT_TEXT_DATE_STRATEGY],
      [col |-> "exchange", metric |-> "text", strategy |-> DEFAULT_TEXT_DATE_STRATEGY],
      [col |-> "issue_type", metric |-> "text", strategy |-> DEFAULT_TEXT_DATE_STRATEGY],
      [col |-> "ipo_size", metric |-> "amount", strategy |-> DEFAULT_AMOUNT_STRATEGY],
      [col |-> "issue_price", metric |-> "price", strategy |-> DEFAULT_PRICE_STRATEGY],
      [col |-> "face_value", metric |-> "price", strategy |-> DEFAULT_PRICE_STRATEGY],
      [col |-> "pre_issue_promoter_holding", metric |-> "percentage", strategy |-> Strategy("median", "clip_then_percentile_clip", "robust_z", Num(0), Num(100))],
      [col |-> "post_issue_promoter_holding", metric |-> "percentage", strategy |-> Strategy("median", "clip_then_percentile_clip", "robust_z", Num(0), Num(100))],
      [col |-> "dhrp_date", metric |-> "date", strategy |-> DEFAULT_TEXT_DATE_STRATEGY],
      [col |-> "open_date", metric |-> "date", strategy |-> DEFAULT_TEXT_DATE_STRATEGY],
      [col |-> "close_date", metric |-> "date", strategy |-> DEFAULT_TEXT_DATE_STRATEGY],
      [col |-> "allotment_date", metric |-> "date", strategy |-> DEFAULT_TEXT_DATE_STRATEGY],
      [col |-> "listing_date", metric |-> "date", strategy |-> DEFAULT_TEXT_DATE_STRATEGY],
      [col |-> "object_of_issue", metric |-> "text", strategy |-> DEFAULT_TEXT_DATE_STRATEGY],
      [col |-> "listing_price", metric |-> "price", strategy |-> DEFAULT_TEXT_DATE_STRATEGY],
      [col |-> "listing_gain", metric |-> "price", strategy |-> DEFAULT_TEXT_DATE_STRATEGY],
      [col |-> "current_market_price", metric |-> "price", strategy |-> DEFAULT_PRICE_STRATEGY],
      [col |-> "subscription", metric |-> "times", strategy |-> Strategy("zero", "percentile_clip", "robust_z", Num(0), None)],
      [col |-> "allocation_total_ipo_subscription", metric |-> "percentage", strategy |-> Strategy("zero", "clip_then_percentile_clip", "robust_z", Num(0), Num(100))],
      [col |-> "subscription_qib", metric |-> "times", strategy |-> Strategy("zero", "percentile_clip", "robust_z", Num(0), None)],
      [col |-> "allocation_qib", metric |-> "percentage", strategy |-> Strategy("zero", "clip_then_percentile_clip", "robust_z", Num(0), Num(100))],
      [col |-> "subscription_retail_investors", metric |-> "times", strategy |-> Strategy("zero", "percentile_clip", "robust_z", Num(0), None)],
      [col |-> "allocation_retail_investors", metric |-> "percentage", strategy |-> Strategy("zero", "clip_then_percentile_clip", "robust_z", Num(0), Num(100))],
      [col |-> "subscription_employees", metric |-> "times", strategy |-> Strategy("zero", "percentile_clip", "robust_z", Num(0), None)],
      [col |-> "allocation_employees", metric |-> "percentage", strategy |-> Strategy("zero", "clip_then_percentile_clip", "robust_z", Num(0), Num(100))],
      [col |-> "subscription_snii_bids_below_10l", metric |-> "times", strategy |-> Strategy("zero", "percentile_clip", "robust_z", Num(0), None)],
      [col |-> "allocation_snii_bids_below_10l", metric |-> "percentage", strategy |-> Strategy("zero", "clip_then_percentile_clip", "robust_z", Num(0), Num(100))],
      [col |-> "subscription_bnii_bids_above_10l", metric |-> "times", strategy |-> Strategy("zero", "percentile_clip", "robust_z", Num(0), None)],
      [col |-> "allocation_bnii_bids_above_10l", metric |-> "percentage", strategy |-> Strategy("zero", "clip_then_percentile_clip", "robust_z", Num(0), Num(100))]>>

\* class Metric
Metric == {"amount", "price", "percentage", "ratio", "times", "count", "date", "text"}

\* IPOColumn.strategy_map() over the whole registry
full_strategy_map ==
    [c \in {IPOColumn[i].col : i \in DOMAIN IPOColumn} |->
        IPOColumn[CHOOSE i \in DOMAIN IPOColumn : IPOColumn[i].col = c].strategy]

\* IPOColumn.get_field_names(metric)
get_field_names(metric) ==
    LET members == SelectSeq(IPOColumn, LAMBDA m : m.metric = metric)
    IN [i \in DOMAIN members |-> members[i].col]

\* strategy_map()[column] for the drawn column
StrategyMap ==
    /\ call.op = "init"
    /\ call' = [call EXCEPT !.op = "strategy_map"]
    /\ ret' = Returned(full_strategy_map[call.arg])
    /\ UNCHANGED <<df, imp_art, out_art, norm_art, file, loaded, money, steps, fitted_on,
                   trace, disk, writer, fetcher, pool, transformer>>

\* get_field_names(metric)
GetFieldNames(metric) ==
    /\ call.op = "init"
    /\ call' = [call EXCEPT !.op = "get_field_names", !.mode = metric]
    /\ ret' = Returned(get_field_names(metric))
    /\ UNCHANGED <<df, imp_art, out_art, norm_art, file, loaded, money, steps, fitted_on,
                   trace, disk, writer, fetcher, pool, transformer>>

InitRegistry ==
    /\ df = NoTable /\ imp_art = NoImp /\ out_art = NoOut /\ norm_art = NoNorm
    /\ \E c \in DOMAIN full_strategy_map : call = [NoCall EXCEPT !.arg = c]
    /\ file = NoFile /\ loaded = <<>> /\ money = NoMoney
    /\ steps = <<>> /\ fitted_on = NoTable
    /\ ret = NoRet /\ trace = <<>> /\ disk = NoDisk
    /\ writer = NoWriter /\ fetcher = NoFetcher /\ pool = NoPool /\ transformer = NoTransformer

NextRegistry == StrategyMap \/ \E metric \in Metric : GetFieldNames(metric)

SpecRegistry == InitRegistry /\ [][NextRegistry]_vars

\* the four grey-market-premium columns
GmpColumns == {"ipo_open_gmp", "ipo_close_gmp", "ipo_allotment_gmp", "ipo_listing_gmp"}

\* the PRICE columns the registry keeps as labels
LabelColumns == {"listing_price", "listing_gain"}

PriceColumns == Range(get_field_names("price"))

HasPolicies(strategy, imp, outl, norm) ==
    strategy.imputer = imp /\ strategy.outlier = outl /\ strategy.normalization = norm

\* C22 as stated: every PRICE column of the registry other than the four GMP
\* columns has median imputation, percentile_filter and log1p
C22_PricePolicyAny ==
    (call.op = "strategy_map" /\ call.arg \in PriceColumns \ GmpColumns) =>
        HasPolicies(ret.val, "median", "percentile_filter", "log1p")

\* C22: every PRICE column of the registry other than the four GMP columns
\* and the two label columns listing_price and listing_gain has median
\* imputation, percentile_filter and log1p; the two label columns have the
\* identity strategy
C22_PricePolicy ==
    call.op = "strategy_map" =>
        /\ call.arg \in PriceColumns \ (GmpColumns \cup LabelColumns) =>
              HasPolicies(ret.val, "median", "percentile_filter", "log1p")
        /\ call.arg \in LabelColumns =>
              call.arg \in PriceColumns /\ HasPolicies(ret.val, "none", "none", "none")

C22_Witness ==
    /\ call.op = "strategy_map" /\ call.arg = "current_market_price"
    /\ call.arg \in PriceColumns
    /\ ret.val.outlier = "percentile_filter"

\* ------------------------------------------- IPOGmpTableFetcher: retry loop
\* times are in milliseconds

\* the constructor arguments max_retries, base_backoff_s, max_backoff_s: the
\* defaults, a configuration without retries, and a short cap
FetcherConfigs ==
    {[max_retries |-> 6, base_backoff_s |-> 1000, max_backoff_s |-> 30000],
     [max_retries |-> 0, base_backoff_s |-> 1000, max_backoff_s |-> 30000],
     [max_retries |-> 2, base_backoff_s |-> 1000, max_backoff_s |-> 2000]}

\* resp.status
Statuses == {200, 404, 429, 503}

\* resp.json(): a dict with "ipoGmpTable", a dict with "error" and "msg",
\* another dict, or no JSON at all (data = None)
Payloads == {"table", "error", "dict", "none"}

\* the Retry-After header: absent, or its text
NoHeader == "<absent>"
RetryAfters == {NoHeader, "", "2", "120", "-1", "inf", "Wed, 21 Oct 2015 07:28:00 GMT"}

Responses == [status : Statuses, data : Payloads, retry_after : RetryAfters]

\* random.random() as a percentage of the jitter factor 0.7 + random() * 0.6:
\* from 0.7 up to, not including, 1.3
Jitters == {70, 100, 129}

\* resp.ok
ok(resp) == resp.status \in 200..299

\* float(retry_after) in milliseconds; "error" when float() raises
FloatMs(text) ==
    CASE text = "2" -> [kind |-> "num", ms |-> 2000]
      [] text = "120" -> [kind |-> "num", ms |-> 120000]
      [] text = "-1" -> [kind |-> "num", ms |-> -1000]
      [] text = "inf" -> [kind |-> "inf", ms |-> 0]
      [] OTHER -> [kind |-> "error", ms |-> 0]

Min(a, b) == IF a <= b THEN a ELSE b

\* the success shape
is_success(resp) == ok(resp) /\ resp.data = "table"

\* should_retry
should_retry(resp) ==
    \/ resp.status = 429
    \/ resp.status \in 500..599
    \/ (ok(resp) /\ resp.data = "error")

\* sleep_s as the loop computes it
capped_backoff(cfg, attempt, jitter) ==
    (Min(cfg.base_backoff_s * (2 ^ attempt), cfg.max_backoff_s) * jitter) \div 100

sleep_s(cfg, resp, attempt, jitter) ==
    IF resp.retry_after \notin {NoHeader, ""}
    THEN (IF FloatMs(resp.retry_after).kind = "error"
          THEN [kind |-> "num", ms |-> cfg.base_backoff_s]
          ELSE FloatMs(resp.retry_after))
    ELSE [kind |-> "num", ms |-> capped_backoff(cfg, attempt, jitter)]

\* time.sleep(t): the exception it raises, "" when it sleeps
sleep_raises(t) ==
    IF t.kind = "inf" THEN "OverflowError"
    ELSE IF t.ms < 0 THEN "ValueError"
    ELSE ""

\* the fetcher at the call of _api_get_with_retry
FetcherAt(cfg) ==
    [cfg |-> cfg, pc |-> "loop", attempt |-> 0, requests |-> 0,
     resp |-> <<>>, sleep_s |-> <<>>]

\* one pass of the loop body: the request, its classification and the sleep
Attempt(resp, jitter) ==
    /\ fetcher.pc = "loop"
    /\ fetcher.attempt <= fetcher.cfg.max_retries
    /\ LET sent == [fetcher EXCEPT !.requests = @ + 1, !.resp = resp, !.sleep_s = <<>>]
           t == sleep_s(fetcher.cfg, resp, fetcher.attempt, jitter)
       IN IF is_success(resp)
          THEN fetcher' = [sent EXCEPT !.pc = "done"] /\ ret' = Returned(resp.data)
          ELSE IF ~should_retry(resp)
          THEN fetcher' = [sent EXCEPT !.pc = "done"] /\ ret' = Raised("RuntimeError")
          ELSE IF sleep_raises(t) # ""
          THEN /\ fetcher' = [sent EXCEPT !.pc = "done", !.sleep_s = t]
               /\ ret' = Raised(sleep_raises(t))
          ELSE /\ fetcher' = [sent EXCEPT !.attempt = @ + 1, !.sleep_s = t]
               /\ ret' = NoRet
    /\ call' = [call EXCEPT !.op = "_api_get_with_retry"]
    /\ UNCHANGED <<df, imp_art, out_art, norm_art, file, loaded, money, steps, fitted_on,
                   trace, disk, writer, pool, transformer>>

\* the loop has run max_retries + 1 times: retries exhausted
Exhausted ==
    /\ fetcher.pc = "loop"
    /\ fetcher.attempt > fetcher.cfg.max_retries
    /\ fetcher' = [fetcher EXCEPT !.pc = "done"]
    /\ ret' = Raised("RuntimeError")
    /\ UNCHANGED <<df, imp_art, out_art, norm_art, call, file, loaded, money, steps,
                   fitted_on, trace, disk, writer, pool, transformer>>

InitFetcher ==
    /\ df = NoTable /\ imp_art = NoImp /\ out_art = NoOut /\ norm_art = NoNorm
    /\ call = NoCall /\ file = NoFile /\ loaded = <<>> /\ money = NoMoney
    /\ steps = <<>> /\ fitted_on = NoTable
    /\ ret = NoRet /\ trace = <<>> /\ disk = NoDisk
    /\ writer = NoWriter /\ pool = NoPool /\ transformer = NoTransformer
    /\ \E cfg \in FetcherConfigs : fetcher = FetcherAt(cfg)

NextFetcher ==
    \/ \E resp \in Responses, jitter \in Jitters : Attempt(resp, jitter)
    \/ Exhausted

SpecFetcher == InitFetcher /\ [][NextFetcher]_vars

\* C24: the call issues at most max_retries + 1 requests; when it has ended
\* it has returned the payload with "ipoGmpTable" of an ok response or raised
\* RuntimeError; a response that is not the success shape and is neither 429,
\* 5xx nor an ok error-shaped payload ends the call with RuntimeError at once
C24_HardRetryCeiling ==
    call.op = "_api_get_with_retry" =>
        /\ fetcher.requests <= fetcher.cfg.max_retries + 1
        /\ fetcher.pc = "done" =>
              \/ ret = Returned("table") /\ is_success(fetcher.resp)
              \/ ret = Raised("RuntimeError")
        /\ (~is_success(fetcher.resp) /\ ~should_retry(fetcher.resp)) =>
              fetcher.pc = "done" /\ ret = Raised("RuntimeError")

\* C28: whenever the response carries no Retry-After header, the sleep before
\* the next attempt is not longer than max_backoff_s
C28_BackoffCapped ==
    (call.op = "_api_get_with_retry" /\ fetcher.sleep_s # <<>>
        /\ fetcher.resp.retry_after = NoHeader) =>
        fetcher.sleep_s.ms <= fetcher.cfg.max_backoff_s

\* ------------------------------------------- bronze, silver, gold in sequence
\* the files of the stages are kept by name only; trace logs every file
\* written, in order
MaxStageWrites == 12

\* config["segments"]: the two segments, or none
SegmentConfigs == {<<>>, segments}

\* a fresh DataTransformer with its configuration and data frame library
DataTransformer(segs, build) ==
    [segments |-> segs, build |-> build, bronze |-> {}, silver |-> "None", gold |-> {}]

\* the outcome of a stage: the transformer, the disk, the files written and
\* the exception raised, if any
Outcome(t, d, writes, raised) == [self |-> t, disk |-> d, writes |-> writes, raised |-> raised]

\* the disk after writing the files of names, in order
RECURSIVE WriteAll(_, _)
WriteAll(d, names) ==
    IF names = <<>> THEN d ELSE WriteAll(WriteFile(d, Head(names), "written"), Tail(names))

\* dd.read_csv(path): the exception it raises, "" when the file exists
read_csv_mut(d, path) == ""

read_csv(d, path) == IF path \in DOMAIN d THEN "" ELSE "FileNotFoundError"

\* create_bronze: self.bronze[key] is assigned before the file of that key is
\* written; drop_duplicates(inplace=True) raises in the first segment under
\* the expression build, and dd.concat of no frame raises
create_bronze(t, d) ==
    LET segs == t.segments
        names == [i \in DOMAIN segs |-> BronzeName(segs[i])] \o <<BronzeName("combined")>>
    IN IF segs = <<>>
       THEN Outcome([t EXCEPT !.bronze = @ \cup {"combined"}], d, <<>>, "ValueError")
       ELSE IF drop_duplicates_inplace(<<>>, {common_field}, t.build).raised # ""
       THEN Outcome([t EXCEPT !.bronze = @ \cup {segs[1]}], d, <<>>, "TypeError")
       ELSE Outcome([t EXCEPT !.bronze = @ \cup Range(segs) \cup {"combined"}],
                    WriteAll(d, names), names, "")

SilverName == <<"silver", "data">>

\* create_silver; fail: combined_df.drop(columns=...) raises for a combined
\* table without the columns
create_silver(t, d, fail) ==
    LET b == IF "combined" \notin t.bronze THEN create_bronze(t, d) ELSE Outcome(t, d, <<>>, "")
    IN IF b.raised # "" THEN b
       ELSE IF read_csv(b.disk, BronzeName("combined")) # ""
       THEN Outcome(b.self, b.disk, b.writes, read_csv(b.disk, BronzeName("combined")))
       ELSE IF fail THEN Outcome(b.self, b.disk, b.writes, "KeyError")
       ELSE Outcome([b.self EXCEPT !.silver = SilverName],
                    WriteFile(b.disk, SilverName, "written"),
                    Append(b.writes, SilverName), "")

\* the files create_gold writes for a dataset, in order
GoldNames(dataset_name) ==
    <<<<"gold", dataset_name, "_imputer.json">>, <<"gold", dataset_name, "_outlier.json">>,
      <<"gold", dataset_name, "_normalizer.json">>, <<"gold", dataset_name, ".csv">>>>

\* create_gold; fail: fit_imputer raises
create_gold(t, d, dataset_name, fail) ==
    LET s == IF t.silver = "None" THEN create_silver(t, d, FALSE) ELSE Outcome(t, d, <<>>, "")
    IN IF s.raised # "" THEN s
       ELSE IF read_csv(s.disk, s.self.silver) # ""
       THEN Outcome(s.self, s.disk, s.writes, read_csv(s.disk, s.self.silver))
       ELSE IF fail THEN Outcome(s.self, s.disk, s.writes, "NotImplementedError")
       ELSE Outcome([s.self EXCEPT !.gold = @ \cup {dataset_name}],
                    WriteAll(s.disk, GoldNames(dataset_name)),
                    s.writes \o GoldNames(dataset_name), "")

\* the state after a call with outcome o
StageCall(op, o) ==
    /\ Len(trace) + Len(o.writes) <= MaxStageWrites
    /\ call' = [call EXCEPT !.op = op]
    /\ transformer' = o.self
    /\ disk' = o.disk
    /\ trace' = trace \o o.writes
    /\ ret' = IF o.raised # "" THEN Raised(o.raised) ELSE Returned(None)
    /\ UNCHANGED <<df, imp_art, out_art, norm_art, file, loaded, money, steps, fitted_on,
                   writer, fetcher, pool>>

CallCreateBronze == StageCall("create_bronze", create_bronze(transformer, disk))
CallCreateSilver(fail) == StageCall("create_silver", create_silver(transformer, disk, fail))
CallCreateGold(dataset_name, fail) ==
    StageCall("create_gold", create_gold(transformer, disk, dataset_name, fail))

InitStages ==
    /\ df = NoTable /\ imp_art = NoImp /\ out_art = NoOut /\ norm_art = NoNorm
    /\ call = NoCall /\ file = NoFile /\ loaded = <<>> /\ money = NoMoney
    /\ steps = <<>> /\ fitted_on = NoTable
    /\ ret = NoRet /\ trace = <<>> /\ disk = NoDisk
    /\ writer = NoWriter /\ fetcher = NoFetcher /\ pool = NoPool
    /\ \E segs \in SegmentConfigs, build \in DaskBuilds :
          transformer = DataTransformer(segs, build)

NextStages ==
    \/ CallCreateBronze
    \/ \E fail \in BOOLEAN : CallCreateSilver(fail)
    \/ \E dataset_name \in {"d1", "d2"}, fail \in BOOLEAN : CallCreateGold(dataset_name, fail)

SpecStages == InitStages /\ [][NextStages]_vars

\* file name was written before position i of the log
WrittenBefore(name, i) == \E j \in 1..(i - 1) : trace[j] = name

\* C25: the silver file is never written before the combined bronze file has
\* been written, and no gold file or gold artifact is written before the
\* silver file has been written
C25_StagesForward ==
    \A i \in DOMAIN trace :
        /\ trace[i] = SilverName => WrittenBefore(BronzeName("combined"), i)
        /\ trace[i][1] = "gold" => WrittenBefore(SilverName, i)

\* C25 witness: create_gold on a transformer that had built nothing built
\* bronze and silver first
C25_Witness ==
    /\ call.op = "create_gold" /\ ret.raised = ""
    /\ Len(trace) = 8
    /\ trace[3] = BronzeName("combined") /\ trace[4] = SilverName /\ trace[5][1] = "gold"

\* ------------------------------ specification: fit_outliers, then clip mode
\* reference and applied tables with values on both sides of a hard_min
HardVals == {NaN} \cup {Num(i) : i \in -1..MaxVal}
HardTables == TablesOver({S}, HardVals) \cup TablesOver({P}, HardVals)
HardColLists == {NoCols, <<P, S>>}

\* handle_outliers(artifacts, t, cols, mode="clip") with the artifacts that
\* fit_outliers returned for the same cols
ClipFitted(t) ==
    /\ call.op = "fit_outliers"
    /\ df' = handle_outliers(out_art, t, call.cols, "clip")
    /\ steps' = OutlierSteps(out_art, t, call.cols, "clip")
    /\ fitted_on' = df
    /\ call' = [op |-> "handle_outliers", cols |-> call.cols, mode |-> "clip",
                before |-> t, arg |-> <<>>]
    /\ UNCHANGED <<writer, fetcher, pool, transformer, imp_art, out_art, norm_art, file, loaded, money, ret, trace,
                   disk>>

InitHard ==
    /\ df \in HardTables
    /\ imp_art = NoImp
    /\ out_art = NoOut
    /\ norm_art = NoNorm
    /\ call = NoCall
    /\ file = NoFile
    /\ loaded = <<>>
    /\ money = NoMoney
    /\ steps = <<>>
    /\ fitted_on = NoTable
    /\ ret = NoRet /\ writer = NoWriter /\ fetcher = NoFetcher /\ pool = NoPool /\ transformer = NoTransformer
    /\ trace = <<>>
    /\ disk = NoDisk

NextHard ==
    \/ \E cols \in HardColLists : FitOutliers(cols)
    \/ \E t \in HardTables : ClipFitted(t)

SpecHard == InitHard /\ [][NextHard]_vars

\* x lies within the hard bounds of col's strategy; a None bound is no bound
WithinHard(col, x) ==
    /\ get_strategy(col).hard_min # None => Leq(get_strategy(col).hard_min, x)
    /\ get_strategy(col).hard_max # None => Leq(x, get_strategy(col).hard_max)

\* C26: after handle_outliers in clip mode with artifacts that fit_outliers
\* produced, every non-null value of a targeted column whose strategy has a
\* hard_min or a hard_max lies within those hard bounds.
C26_HardBoundsInOutput ==
    (call.op = "handle_outliers" /\ call.mode = "clip" /\ fitted_on # NoTable) =>
        \A c \in Range(select(call.before, call.cols)) :
            (HasStrategy(c) /\ c \in df.cols) =>
                \A r \in df.rows :
                    IsNum(df.cell[c][r]) => WithinHard(c, df.cell[c][r])

\* ------------------- specification: create_gold on tables with values <= -1
I == Col("issue_price")

\* silver tables whose log1p columns hold values on both sides of -1
LogVals == {NaN} \cup {Num(i) : i \in -2..MaxVal}
LogTables == TablesOver({A}, LogVals) \cup TablesOver({I}, LogVals)
LogColLists == {NoCols, <<A, I>>}

InitGoldLog ==
    /\ df \in LogTables
    /\ \E cols \in LogColLists :
          call = [op |-> "create_gold", cols |-> cols, mode |-> "", before |-> df, arg |-> <<>>]
    /\ imp_art = NoImp
    /\ out_art = NoOut
    /\ norm_art = NoNorm
    /\ file = NoFile
    /\ loaded = <<>>
    /\ money = NoMoney
    /\ steps = <<>>
    /\ fitted_on = NoTable
    /\ ret = NoRet /\ writer = NoWriter /\ fetcher = NoFetcher /\ pool = NoPool /\ transformer = NoTransformer
    /\ trace = <<>>
    /\ disk = NoDisk

SpecGoldLog == InitGoldLog /\ [][NextGold]_vars

\* the log1p columns normalize transforms in the table it receives
AppliedLogCols ==
    {c \in Range(select(df, call.cols)) : c \in DOMAIN norm_art.log1p_shift}

\* C29: in create_gold, every non-null value of a log1p column in the table
\* that normalize receives (imputed and clipped, artifacts fitted on the raw
\* silver table) satisfies value + log1p_shift[col] > -1.
C29_Log1pDefinedAtApply ==
    NextStep = "normalize" =>
        \A c \in AppliedLogCols :
            \A r \in df.rows :
                IsNum(df.cell[c][r]) =>
                    ~Leq(Add(df.cell[c][r], norm_art.log1p_shift[c]), Num(-1))

\* C29 witness: normalize is about to run on a column with a non-zero shift
\* whose values impute or the clip changed since the fit
C29_Witness ==
    /\ NextStep = "normalize"
    /\ \E c \in AppliedLogCols :
          /\ norm_art.log1p_shift[c] # Num(0)
          /\ df.cell[c] # call.before.cell[c]
          /\ \E r \in df.rows : IsNum(df.cell[c][r])

\* --------------------------- ChittorgarhScraper._get_pages: worker threads
MaxPageRows == 2
CompanyNames == {<<"A", " ", "B">>, <<"a", " ", "b">>}
NoUrl == "nan"
PageRows ==
    [company_name : CompanyNames, investor_gain : {"https://gmp", NoUrl}]
PageRowLists ==
    UNION {[1..n -> PageRows] : n \in 1..MaxPageRows}

\* self.config["sectionsAPI"][section] of the one section: page_info.get("path")
\* and page_info.get("key")
PageInfos ==
    {[path |-> "/ipo/{id}", key |-> ""],
     [path |-> "/ipo/{id}", key |-> "investor_gain"],
     [path |-> "", key |-> "investor_gain"]}
WorkerCounts == {1, 2}

\* str.replace(" ", "_")
replace(s) == [i \in DOMAIN s |-> IF s[i] = " " THEN "_" ELSE s[i]]

\* the output file of a task: out_dir/<company_name.lower().replace(" ", "_")>.html
PagePath(out_dir, company_name) == <<out_dir, replace(Lower(company_name)), ".html">>

OutDir == "html/mainboard/section"

PageTask(row, url) ==
    [path |-> PagePath(OutDir, row.company_name), url |-> url, pc |-> "queued"]

\* the tasks _submit_row_tasks submits for one row, in submission order
_submit_row_tasks(page_info, row) ==
    (IF page_info.path # "" THEN <<PageTask(row, "")>> ELSE <<>>)
    \o (IF page_info.key = "investor_gain" /\ row.investor_gain # NoUrl
        THEN <<PageTask(row, row.investor_gain)>>
        ELSE <<>>)

\* tasks a worker thread is executing past the exists-check
Running == {i \in DOMAIN pool.tasks : pool.tasks[i].pc \in {"fetch", "write"}}
Queued == {i \in DOMAIN pool.tasks : pool.tasks[i].pc = "queued"}

\* the main thread submits the tasks of the next row
SubmitRowTasks ==
    /\ pool.next <= Len(pool.rows)
    /\ pool' = [pool EXCEPT
                   !.next = @ + 1,
                   !.tasks = @ \o _submit_row_tasks(pool.page_info, pool.rows[pool.next])]
    /\ UNCHANGED <<df, imp_art, out_art, norm_art, call, file, loaded, money, steps, fitted_on, ret,
                   trace, disk, writer, fetcher, transformer>>

\* an idle worker takes the oldest queued task and runs _fetch_and_save_page
\* up to the os.path.exists test
ExistsCheck(i) ==
    /\ i \in Queued
    /\ \A j \in Queued : i <= j
    /\ Cardinality(Running) < pool.max_workers
    /\ pool' = [pool EXCEPT !.tasks[i].pc =
                   IF pool.tasks[i].path \in DOMAIN disk THEN "skipped" ELSE "fetch"]
    /\ UNCHANGED <<df, imp_art, out_art, norm_art, call, file, loaded, money, steps, fitted_on, ret,
                   trace, disk, writer, fetcher, transformer>>

\* extract_gmp(url) or _get_page(...): a page, or a falsy result
FetchPage(i, page) ==
    /\ i \in DOMAIN pool.tasks
    /\ pool.tasks[i].pc = "fetch"
    /\ pool' = [pool EXCEPT !.tasks[i].pc = IF page THEN "write" ELSE "nopage"]
    /\ UNCHANGED <<df, imp_art, out_art, norm_art, call, file, loaded, money, steps, fitted_on, ret,
                   trace, disk, writer, fetcher, transformer>>

\* open(path, "w") and write the page
SavePage(i) ==
    /\ i \in DOMAIN pool.tasks
    /\ pool.tasks[i].pc = "write"
    /\ disk' = WriteFile(disk, pool.tasks[i].path, i)
    /\ trace' = Append(trace, i)
    /\ pool' = [pool EXCEPT !.tasks[i].pc = "written"]
    /\ UNCHANGED <<df, imp_art, out_art, norm_art, call, file, loaded, money, steps, fitted_on, ret,
                   writer, fetcher, transformer>>

InitPages ==
    /\ \E rows \in PageRowLists, page_info \in PageInfos, max_workers \in WorkerCounts :
          pool = [rows |-> rows, page_info |-> page_info, max_workers |-> max_workers,
                  next |-> 1, tasks |-> <<>>]
    /\ df = NoTable
    /\ imp_art = NoImp
    /\ out_art = NoOut
    /\ norm_art = NoNorm
    /\ call = NoCall
    /\ file = NoFile
    /\ loaded = <<>>
    /\ money = NoMoney
    /\ steps = <<>>
    /\ fitted_on = NoTable
    /\ ret = NoRet /\ writer = NoWriter /\ fetcher = NoFetcher /\ transformer = NoTransformer
    /\ trace = <<>>
    /\ disk = NoDisk

NextPages ==
    \/ SubmitRowTasks
    \/ \E i \in 1..(2 * MaxPageRows) :
          \/ ExistsCheck(i)
          \/ \E page \in BOOLEAN : FetchPage(i, page)
          \/ SavePage(i)

SpecPages == InitPages /\ [][NextPages]_vars

\* C30: no two tasks with the same output path both pass the exists-check and
\* write the file.
C30_OneWriterPerFile ==
    \A i \in DOMAIN pool.tasks : \A j \in DOMAIN pool.tasks :
        (i # j /\ pool.tasks[i].path = pool.tasks[j].path) =>
            ~(pool.tasks[i].pc = "written" /\ pool.tasks[j].pc = "written")


====
